---- MODULE Spec2Model ----
(***************************************************************************)
(* A model of the TypeScript implementation of the message queue that is   *)
(* listed in src/README.md (lines 330-851): class RingBuffer and class     *)
(* MessageQueue, with the BroadcastChannel of the platform as a set of     *)
(* per-receiver FIFO queues.                                               *)
(*                                                                         *)
(* JavaScript is single threaded: every public method and every channel    *)
(* event handler runs to completion, so each is one action.  A method is   *)
(* an operator from the object's state (and its arguments) to a record     *)
(* holding the new state, the returned value and what the call did to the  *)
(* outside (callbacks invoked, values posted).                             *)
(***************************************************************************)
EXTENDS Integers, Sequences, FiniteSets, TLC

VARIABLES
    mq,        \* mq[i]: the fields of MessageQueue instance i
    chan,      \* chan[i]: channel events queued for instance i's onmessage
    nextUUID,  \* the number of values generateUUID has returned so far
    now,       \* the clock that Date.now() reads
    log,       \* log[i]: what instance i did to the outside, in order
    calls,     \* the calls and channel events handled so far
    rb,        \* a RingBuffer object on its own
    rbTrace,   \* the calls made on rb since its construction, in order
    micro      \* the microtask queue of the context of instance A

vars == <<mq, chan, nextUUID, now, log, calls, rb, rbTrace, micro>>

(***************************************************************************)
(* Bounds of the model.                                                    *)
(***************************************************************************)
MaxCap == 2       \* capacities range over 0..MaxCap
MaxRBOps == 5     \* calls made on the RingBuffer that stands alone
MaxMsgs == 3      \* calls of generateUUID for a message
MaxSubs == 2      \* subscribe calls per topic
MaxCalls == 5     \* calls made on the instance that is used on its own
MaxNetCalls == 6  \* calls and channel events of the two instances together
MaxCbCalls == 5   \* calls made on the instance whose callbacks call back
MaxWireCalls == 7  \* calls and channel events of the sender and receiver pair
MaxAsyncCalls == 5  \* calls of the program with deferred publishes
MaxCloseCalls == 7  \* calls of the program that closes the instance

(***************************************************************************)
(* JavaScript values.  null and undefined are records of their own shape,  *)
(* so that they compare (unequal) with every other value.                  *)
(***************************************************************************)
Null == [null |-> TRUE]
Undefined == [undefined |-> TRUE]

Min(a, b) == IF a <= b THEN a ELSE b

\* the last n elements of s (all of s when it is shorter)
LastN(s, n) == SubSeq(s, Len(s) - Min(n, Len(s)) + 1, Len(s))

\* array.fill(v) on a new Array(n)
Fill(n, v) == [k \in 1..n |-> v]

(***************************************************************************)
(* class RingBuffer.  The array is 0-based in the code, a sequence here:   *)
(* slot k of the code is buffer[k + 1].                                    *)
(***************************************************************************)
RBNew(capacity) ==
    [buffer |-> Fill(capacity, Null), capacity |-> capacity,
     size |-> 0, front |-> 0, rear |-> 0]

isEmpty(r) == r.size = 0

isFull(r) == r.size = r.capacity

len(r) == r.size

getCapacity(r) == r.capacity

\* push: the new object state and the returned (displaced) value
\* push with the front index left where it is when the buffer is full
pushKeepFront(r, item) ==
    IF r.capacity = 0 THEN [rb |-> r, ret |-> item]
    ELSE
      LET full == isFull(r)
          displaced == IF full THEN r.buffer[r.front + 1] ELSE Null
          buf2 == [r.buffer EXCEPT ![r.rear + 1] = item]
          rear1 == (r.rear + 1) % r.capacity
          size1 == IF displaced = Null THEN r.size + 1 ELSE r.size
      IN [rb |-> [r EXCEPT !.buffer = buf2, !.rear = rear1, !.size = size1],
          ret |-> displaced]

\* push that reports no eviction when the capacity is 0
pushZeroEvictsNone(r, item) ==
    IF r.capacity = 0 THEN [rb |-> r, ret |-> Null]
    ELSE
      LET full == isFull(r)
          displaced == IF full THEN r.buffer[r.front + 1] ELSE Null
          buf1 == IF full THEN [r.buffer EXCEPT ![r.front + 1] = Null]
                  ELSE r.buffer
          front1 == IF full THEN (r.front + 1) % r.capacity ELSE r.front
          buf2 == [buf1 EXCEPT ![r.rear + 1] = item]
          rear1 == (r.rear + 1) % r.capacity
          size1 == IF displaced = Null THEN r.size + 1 ELSE r.size
      IN [rb |-> [r EXCEPT !.buffer = buf2, !.front = front1,
                           !.rear = rear1, !.size = size1],
          ret |-> displaced]

push(r, item) ==
    IF r.capacity = 0 THEN [rb |-> r, ret |-> item]
    ELSE
      LET full == isFull(r)
          displaced == IF full THEN r.buffer[r.front + 1] ELSE Null
          buf1 == IF full THEN [r.buffer EXCEPT ![r.front + 1] = Null]
                  ELSE r.buffer
          front1 == IF full THEN (r.front + 1) % r.capacity ELSE r.front
          buf2 == [buf1 EXCEPT ![r.rear + 1] = item]
          rear1 == (r.rear + 1) % r.capacity
          size1 == IF displaced = Null THEN r.size + 1 ELSE r.size
      IN [rb |-> [r EXCEPT !.buffer = buf2, !.front = front1,
                           !.rear = rear1, !.size = size1],
          ret |-> displaced]

pop(r) ==
    IF isEmpty(r) THEN [rb |-> r, ret |-> Null]
    ELSE [rb |-> [r EXCEPT !.buffer = [r.buffer EXCEPT ![r.front + 1] = Null],
                           !.front = (r.front + 1) % r.capacity,
                           !.size = r.size - 1],
          ret |-> r.buffer[r.front + 1]]

peek(r) == IF isEmpty(r) THEN Null ELSE r.buffer[r.front + 1]

clear(r) ==
    [rb |-> [r EXCEPT !.buffer = Fill(r.capacity, Null),
                      !.size = 0, !.front = 0, !.rear = 0],
     ret |-> r.size]

\* the loop of getAll from its i-th round on, idx being the slot it is at
RECURSIVE getAllFrom(_, _, _)
getAllFrom(r, i, idx) ==
    IF i >= r.size THEN <<>>
    ELSE LET item == r.buffer[idx + 1]
         IN (IF item # Null THEN <<item>> ELSE <<>>)
            \o getAllFrom(r, i + 1, (idx + 1) % r.capacity)

getAll(r) == IF isEmpty(r) THEN <<>> ELSE getAllFrom(r, 0, r.front)

(***************************************************************************)
(* class MessageQueue.  The state of an instance is the record of its      *)
(* fields; channel is TRUE while the field holds a BroadcastChannel.       *)
(***************************************************************************)
Instances == {"A", "B"}

Names == {"x", "y"}

Payloads == {"p", "r"}

\* what a subscriber callback does when it is invoked
Callbacks == {"ok", "throw"}

\* callbacks that call back into the instance while they are invoked:
\*   unsubSelf  unsubscribes its own subscription
\*   unsubNext  unsubscribes the subscription issued after its own
\*   subSame    subscribes a callback of its own kind to the topic
\*   subOk      subscribes an "ok" callback to the topic
\*   pub        publishes "r" to the topic when it is handed "p"
\*   read       calls getBufferedMessages of the topic
\* and, used with an instance that gets closed,
\*   close      calls close()
ReentrantCallbacks ==
    {"unsubSelf", "unsubNext", "subSame", "subOk", "pub", "read"}

\* topic IDs handed to the methods of instance q: every registered ID and
\* the first one that is not registered
TopicIds(q) == 0..Len(q.topics)

\* the registered topic IDs of instance q
Registered(q) == 0..(Len(q.topics) - 1)

\* subscription IDs handed to unsubscribe for topic ID t: every ID issued
\* on the topic and the first one that was not (0 for an unregistered topic)
SubIdsFor(q, t) ==
    IF t \in Registered(q) THEN 0..q.topics[t + 1].nextSubId ELSE {0}

Capacities == 0..MaxCap

\* generateUUID: a value no earlier call has returned
generateUUID(n) == n + 1

EmptyMap == <<>>

\* the constructor, given whether a channel name is passed
\* (and BroadcastChannel exists)
NewMessageQueue(i, withChannel) ==
    [topics |-> <<>>, topicIndex |-> EmptyMap, channel |-> withChannel,
     clientId |-> i, seenIds |-> {}, isClosed |-> FALSE]

\* the result of a method: the instance after the call, the returned value,
\* whether the call threw, and the events of the call in order
Result(q, ret, threw, ev) == [q |-> q, ret |-> ret, threw |-> threw, ev |-> ev]

(***************************************************************************)
(* The trace of an instance: what a call or a channel event did, in the    *)
(* order it happened.                                                      *)
(*   receive   the channel handed the instance a value                     *)
(*   register  registerTopic appended a topic slot                         *)
(*   buffer    the buffer of a registered topic was installed (enable),    *)
(*             emptied (clear) or removed (disable, destroy)               *)
(*   close     close ran                                                   *)
(*   dispatch  dispatchLocal went past its isClosed guard for a message    *)
(*   call      a subscriber callback was invoked with these arguments      *)
(*   error     console.error was called for a callback that threw          *)
(*   post      channel.postMessage was called with this value              *)
(*   subscribe   subscribe stored a callback and returned this ID          *)
(*   unsubscribe unsubscribe removed the callback of this ID               *)
(*   throw     the call threw an Error to its caller                       *)
(*   read      a callback called getBufferedMessages and got this list     *)
(*   hang      the subscribers loop of a dispatch cannot end               *)
(***************************************************************************)
ReceiveEv(data) == [ev |-> "receive", data |-> data]

RegisterEv(name, id) == [ev |-> "register", name |-> name, id |-> id]

BufferEv(op, topicId) == [ev |-> "buffer", op |-> op, topic_id |-> topicId]

EnableEv(topicId, capacity) ==
    [ev |-> "buffer", op |-> "enable", topic_id |-> topicId,
     capacity |-> capacity]

CloseEv == [ev |-> "close"]

DispatchEv(msg) ==
    [ev |-> "dispatch", id |-> msg.id, topic_id |-> msg.topic_id,
     payload |-> msg.payload]

CallEv(subId, msg) ==
    [ev |-> "call", sub |-> subId, payload |-> msg.payload,
     topic_id |-> msg.topic_id, timestamp |-> msg.timestamp, id |-> msg.id]

ErrorEv(subId) == [ev |-> "error", sub |-> subId]

PostEv(data) == [ev |-> "post", data |-> data]

SubscribeEv(topicId, subId) ==
    [ev |-> "subscribe", topic_id |-> topicId, sub |-> subId]

UnsubscribeEv(topicId, subId) ==
    [ev |-> "unsubscribe", topic_id |-> topicId, sub |-> subId]

ThrowEv(topicId) == [ev |-> "throw", topic_id |-> topicId]

ReadEv(topicId, payloads) ==
    [ev |-> "read", topic_id |-> topicId, payloads |-> payloads]

HangEv == [ev |-> "hang"]

\* publishAsync call number pid was made
AsyncEv(pid, topicId, payload) ==
    [ev |-> "async", pid |-> pid, topic_id |-> topicId, payload |-> payload]

\* the steps of the promise machinery for publishAsync call number pid: the
\* queued function starts ("run") and has called resolve ("done"), the
\* returned promise has subscribed to the inner one ("then") and is
\* fulfilled ("settle")
PromiseEv(kind, pid) == [ev |-> kind, pid |-> pid]

\* whether a call is caught in a loop that cannot end (it never returns)
Hangs(r) == r.ev # <<>> /\ r.ev[Len(r.ev)].ev = "hang"

getTopic(q, id) ==
    IF id \in 0..(Len(q.topics) - 1) THEN q.topics[id + 1] ELSE Undefined

\* instance q with the TopicState of slot id replaced
SetTopic(q, id, t) == [q EXCEPT !.topics[id + 1] = t]

\* registerTopic with the name left out of topicIndex
registerTopicNoIndex(q, name) ==
    IF name \in DOMAIN q.topicIndex
    THEN Result(q, q.topicIndex[name], FALSE, <<>>)
    ELSE LET id == Len(q.topics)
             topicState == [id |-> id, name |-> name, subscribers |-> <<>>,
                            buffer |-> Null, nextSubId |-> 0]
         IN Result([q EXCEPT !.topics = Append(@, topicState)],
                   id, FALSE, <<RegisterEv(name, id)>>)

registerTopic(q, name) ==
    IF name \in DOMAIN q.topicIndex
    THEN Result(q, q.topicIndex[name], FALSE, <<>>)
    ELSE LET id == Len(q.topics)
             topicState == [id |-> id, name |-> name, subscribers |-> <<>>,
                            buffer |-> Null, nextSubId |-> 0]
         IN Result([q EXCEPT !.topics = Append(@, topicState),
                             !.topicIndex = (name :> id) @@ @],
                   id, FALSE, <<RegisterEv(name, id)>>)

\* subscribe that takes the size of the subscribers map as the new ID
subscribeBySize(q, topicId, callback) ==
    LET topic == getTopic(q, topicId)
    IN IF topic = Undefined
       THEN Result(q, Undefined, TRUE, <<ThrowEv(topicId)>>)
       ELSE LET subId == Len(topic.subscribers)
                old == topic.subscribers
                entry == [id |-> subId, cb |-> callback]
                set == IF \E k \in DOMAIN old : old[k].id = subId
                       THEN [k \in DOMAIN old |->
                               IF old[k].id = subId THEN entry ELSE old[k]]
                       ELSE Append(old, entry)
            IN Result(SetTopic(q, topicId,
                         [topic EXCEPT !.nextSubId = @ + 1,
                                       !.subscribers = set]),
                      subId, FALSE, <<SubscribeEv(topicId, subId)>>)

\* subscribe that reports a missing topic by returning -1
subscribeMinusOne(q, topicId, callback) ==
    LET topic == getTopic(q, topicId)
    IN IF topic = Undefined THEN Result(q, -1, FALSE, <<>>)
       ELSE LET subId == topic.nextSubId
            IN Result(SetTopic(q, topicId,
                         [topic EXCEPT
                            !.nextSubId = @ + 1,
                            !.subscribers =
                                Append(@, [id |-> subId, cb |-> callback])]),
                      subId, FALSE, <<SubscribeEv(topicId, subId)>>)

subscribe(q, topicId, callback) ==
    LET topic == getTopic(q, topicId)
    IN IF topic = Undefined
       THEN Result(q, Undefined, TRUE, <<ThrowEv(topicId)>>)
       ELSE LET subId == topic.nextSubId
            IN Result(SetTopic(q, topicId,
                         [topic EXCEPT
                            !.nextSubId = @ + 1,
                            !.subscribers =
                                Append(@, [id |-> subId, cb |-> callback])]),
                      subId, FALSE, <<SubscribeEv(topicId, subId)>>)

\* the keys of a subscribers map
SubIds(subscribers) == {subscribers[k].id : k \in DOMAIN subscribers}

\* Map.delete(subId): the map without that key, the order of the rest kept
MapDelete(subscribers, subId) ==
    SelectSeq(subscribers, LAMBDA e : e.id # subId)

\* unsubscribe that reports the subscription but leaves it in the map
unsubscribeKeep(q, topicId, subId) ==
    LET topic == getTopic(q, topicId)
    IN IF topic = Undefined THEN Result(q, FALSE, FALSE, <<>>)
       ELSE LET found == subId \in SubIds(topic.subscribers)
            IN Result(q, found, FALSE,
                      IF found THEN <<UnsubscribeEv(topicId, subId)>>
                      ELSE <<>>)

\* unsubscribe that returns true for every registered topic
unsubscribeAlwaysTrue(q, topicId, subId) ==
    LET topic == getTopic(q, topicId)
    IN IF topic = Undefined THEN Result(q, FALSE, FALSE, <<>>)
       ELSE Result(SetTopic(q, topicId,
                       [topic EXCEPT !.subscribers = MapDelete(@, subId)]),
                   TRUE, FALSE, <<UnsubscribeEv(topicId, subId)>>)

\* unsubscribe that treats a missing topic as subscribe does
unsubscribeThrows(q, topicId, subId) ==
    LET topic == getTopic(q, topicId)
    IN IF topic = Undefined
       THEN Result(q, Undefined, TRUE, <<ThrowEv(topicId)>>)
       ELSE LET found == subId \in SubIds(topic.subscribers)
            IN Result(SetTopic(q, topicId,
                          [topic EXCEPT !.subscribers = MapDelete(@, subId)]),
                      found, FALSE,
                      IF found THEN <<UnsubscribeEv(topicId, subId)>>
                      ELSE <<>>)

unsubscribe(q, topicId, subId) ==
    LET topic == getTopic(q, topicId)
    IN IF topic = Undefined THEN Result(q, FALSE, FALSE, <<>>)
       ELSE LET found == subId \in SubIds(topic.subscribers)
            IN Result(SetTopic(q, topicId,
                          [topic EXCEPT !.subscribers = MapDelete(@, subId)]),
                      found, FALSE,
                      IF found THEN <<UnsubscribeEv(topicId, subId)>>
                      ELSE <<>>)

unsubscribeAll(q, topicId) ==
    LET topic == getTopic(q, topicId)
    IN IF topic = Undefined THEN Result(q, 0, FALSE, <<>>)
       ELSE Result(SetTopic(q, topicId, [topic EXCEPT !.subscribers = <<>>]),
                   Len(topic.subscribers), FALSE, <<>>)

subscriberCount(q, topicId) ==
    LET topic == getTopic(q, topicId)
    IN IF topic # Undefined THEN Len(topic.subscribers) ELSE 0

(***************************************************************************)
(* Buffer management.                                                      *)
(***************************************************************************)
\* enableTopicBuffer that keeps the buffer of a topic that has one
enableTopicBufferKeep(q, topicId, capacity) ==
    LET topic == getTopic(q, topicId)
    IN IF topic # Undefined
       THEN Result(SetTopic(q, topicId,
                       [topic EXCEPT !.buffer = IF @ = Null
                                                THEN RBNew(capacity) ELSE @]),
                   Undefined, FALSE, <<EnableEv(topicId, capacity)>>)
       ELSE Result(q, Undefined, FALSE, <<>>)

enableTopicBuffer(q, topicId, capacity) ==
    LET topic == getTopic(q, topicId)
    IN IF topic # Undefined
       THEN Result(SetTopic(q, topicId,
                       [topic EXCEPT !.buffer = RBNew(capacity)]),
                   Undefined, FALSE, <<EnableEv(topicId, capacity)>>)
       ELSE Result(q, Undefined, FALSE, <<>>)

disableTopicBuffer(q, topicId) ==
    LET topic == getTopic(q, topicId)
    IN IF topic # Undefined
       THEN Result(SetTopic(q, topicId, [topic EXCEPT !.buffer = Null]),
                   Undefined, FALSE, <<BufferEv("disable", topicId)>>)
       ELSE Result(q, Undefined, FALSE, <<>>)

clearBuffer(q, topicId) ==
    LET topic == getTopic(q, topicId)
    IN IF topic # Undefined /\ topic.buffer # Null
       THEN LET c == clear(topic.buffer)
            IN Result(SetTopic(q, topicId, [topic EXCEPT !.buffer = c.rb]),
                      c.ret, FALSE, <<BufferEv("clear", topicId)>>)
       ELSE Result(q, 0, FALSE, <<>>)

\* array.map(msg => msg.payload)
MapPayload(msgs) == [k \in DOMAIN msgs |-> msgs[k].payload]

getBufferedMessages(q, topicId) ==
    LET topic == getTopic(q, topicId)
    IN IF topic = Undefined \/ topic.buffer = Null THEN <<>>
       ELSE MapPayload(getAll(topic.buffer))

getBufferSize(q, topicId) ==
    LET topic == getTopic(q, topicId)
    IN IF topic # Undefined /\ topic.buffer # Null THEN len(topic.buffer) ELSE 0

getBufferCapacity(q, topicId) ==
    LET topic == getTopic(q, topicId)
    IN IF topic # Undefined /\ topic.buffer # Null
       THEN getCapacity(topic.buffer) ELSE 0

hasBuffer(q, topicId) ==
    LET topic == getTopic(q, topicId)
    IN topic # Undefined /\ topic.buffer # Null

(***************************************************************************)
(* Publishing.                                                             *)
(***************************************************************************)
\* close that leaves the topics, with their subscribers and buffers, in place
closeKeepTopics(q) ==
    Result([q EXCEPT !.isClosed = TRUE, !.channel = FALSE, !.seenIds = {}],
           Undefined, FALSE, <<CloseEv>>)

\* close(): every topic's subscribers map and buffer is cleared before the
\* topics array is replaced, so a loop of dispatchLocal that is running over
\* a topic's subscribers finds no further entry, as it finds none here where
\* the topic is gone
close(q) ==
    Result([q EXCEPT !.isClosed = TRUE, !.channel = FALSE, !.topics = <<>>,
                     !.topicIndex = EmptyMap, !.seenIds = {}],
           Undefined, FALSE, <<CloseEv>>)

createMessage(q, topicId, payload, uuid, ts) ==
    [id |-> uuid, topic_id |-> topicId, origin_id |-> q.clientId,
     payload |-> payload, timestamp |-> ts]

\* generateUUID called for a publish made inside the callback of
\* subscription sub while it was handed message ID id: a value no other
\* call returns
NestedUUID(id, sub) == id + MaxMsgs * (sub + 1)

RECURSIVE publish(_, _, _, _, _)

\* callback(msg.payload, msg.topic_id, msg.timestamp, msg.id): what the
\* callback of entry e does to the instance, and whether it throws
Invoke(q, e, msg) ==
    LET call == <<CallEv(e.id, msg)>>
        t == msg.topic_id
        Did(r) == Result(r.q, Undefined, FALSE, call \o r.ev)
    IN CASE e.cb = "unsubSelf" -> Did(unsubscribe(q, t, e.id))
         [] e.cb = "unsubNext" -> Did(unsubscribe(q, t, e.id + 1))
         [] e.cb = "subSame" -> Did(subscribe(q, t, "subSame"))
         [] e.cb = "subOk" -> Did(subscribe(q, t, "ok"))
         [] e.cb = "pub" ->
              IF msg.payload = "p"
              THEN Did(publish(q, t, "r", NestedUUID(msg.id, e.id),
                               msg.timestamp))
              ELSE Result(q, Undefined, FALSE, call)
         [] e.cb = "read" ->
              Result(q, Undefined, FALSE,
                     call \o <<ReadEv(t, getBufferedMessages(q, t))>>)
         [] e.cb = "close" -> Did(close(q))
         [] OTHER -> Result(q, Undefined, e.cb = "throw", call)

\* Remaining with the entry after lastId passed over
RemainingSkip(subscribers, lastId) ==
    SelectSeq(subscribers, LAMBDA e : e.id > lastId + 1)

\* the entries of a subscribers map that an iterator which has last
\* returned the entry of key lastId has still to visit (keys are inserted in
\* increasing order, so these are the entries of a larger key)
Remaining(subscribers, lastId) ==
    SelectSeq(subscribers, LAMBDA e : e.id > lastId)

\* the subscribers loop without the try/catch around the callback: the
\* first callback that throws ends it
RECURSIVE notifyStopAtThrow(_, _, _, _)
notifyStopAtThrow(q, topicId, msg, lastId) ==
    LET topic == getTopic(q, topicId)
        rest == IF topic = Undefined THEN <<>>
                ELSE Remaining(topic.subscribers, lastId)
    IN IF rest = <<>> THEN Result(q, Undefined, FALSE, <<>>)
       ELSE LET e == Head(rest)
                c == Invoke(q, e, msg)
            IN IF c.threw THEN Result(c.q, Undefined, TRUE, c.ev)
               ELSE LET n == notifyStopAtThrow(c.q, topicId, msg, e.id)
                    IN Result(n.q, Undefined, n.threw, c.ev \o n.ev)

\* the loop over topic.subscribers.values() of dispatchLocal, from the entry
\* after lastId on; the iterator reads the map as the callbacks leave it,
\* so it also visits the entries that are added while it runs.  When every
\* entry it has still to visit has a callback that adds an entry of its own
\* kind, the next step of the loop is in that same situation, and so is
\* every step after it: the loop does not end, which is recorded as a hang
\* in place of the endless sequence of calls.
RECURSIVE notify(_, _, _, _)
notify(q, topicId, msg, lastId) ==
    LET topic == getTopic(q, topicId)
        rest == IF topic = Undefined THEN <<>>
                ELSE Remaining(topic.subscribers, lastId)
    IN IF rest = <<>> THEN Result(q, Undefined, FALSE, <<>>)
       ELSE LET e == Head(rest)
                c == Invoke(q, e, msg)
                caught == IF c.threw THEN <<ErrorEv(e.id)>> ELSE <<>>
                n == notify(c.q, topicId, msg, e.id)
            IN IF Hangs(c) THEN Result(c.q, Undefined, FALSE, c.ev)
               ELSE IF \A k \in DOMAIN rest : rest[k].cb = "subSame"
               THEN Result(c.q, Undefined, FALSE, c.ev \o <<HangEv>>)
               ELSE Result(n.q, Undefined, FALSE, c.ev \o caught \o n.ev)

\* dispatchLocal that pushes the message into the buffer after the
\* subscribers loop
dispatchLocalPushAfter(q, msg) ==
    IF q.isClosed THEN Result(q, Undefined, FALSE, <<>>)
    ELSE LET q1 == [q EXCEPT !.seenIds = @ \cup {msg.id}]
             n == notify(q1, msg.topic_id, msg, -1)
             topic == getTopic(n.q, msg.topic_id)
             q2 == IF topic # Undefined /\ topic.buffer # Null
                   THEN SetTopic(n.q, msg.topic_id,
                            [topic EXCEPT
                               !.buffer = push(topic.buffer, msg).rb])
                   ELSE n.q
         IN Result(q2, Undefined, FALSE, <<DispatchEv(msg)>> \o n.ev)

dispatchLocal(q, msg) ==
    IF q.isClosed THEN Result(q, Undefined, FALSE, <<>>)
    ELSE LET q1 == [q EXCEPT !.seenIds = @ \cup {msg.id}]
             topic == getTopic(q1, msg.topic_id)
         IN IF topic = Undefined
            THEN Result(q1, Undefined, FALSE, <<DispatchEv(msg)>>)
            ELSE LET q2 == IF topic.buffer # Null
                           THEN SetTopic(q1, msg.topic_id,
                                    [topic EXCEPT
                                       !.buffer = push(topic.buffer, msg).rb])
                           ELSE q1
                     n == notify(q2, msg.topic_id, msg, -1)
                 IN Result(n.q, Undefined, FALSE, <<DispatchEv(msg)>> \o n.ev)

\* {...msg, topic_name: topic.name}
WireMsg(msg, name) ==
    [id |-> msg.id, topic_id |-> msg.topic_id, origin_id |-> msg.origin_id,
     payload |-> msg.payload, timestamp |-> msg.timestamp, topic_name |-> name]

broadcast(q, msg) ==
    IF q.channel /\ ~q.isClosed
    THEN LET topic == getTopic(q, msg.topic_id)
         IN IF topic = Undefined THEN Result(q, Undefined, FALSE, <<>>)
            ELSE Result(q, Undefined, FALSE,
                        <<PostEv(<<0, WireMsg(msg, topic.name)>>)>>)
    ELSE Result(q, Undefined, FALSE, <<>>)

publish(q, topicId, payload, uuid, ts) ==
    LET msg == createMessage(q, topicId, payload, uuid, ts)
        d == dispatchLocal(q, msg)
        b == broadcast(d.q, msg)
    IN IF Hangs(d) THEN d
       ELSE Result(b.q, Undefined, FALSE, d.ev \o b.ev)

\* publishBatchById that goes through the payloads from the last to the first
RECURSIVE publishBatchLastFirst(_, _, _, _, _)
publishBatchLastFirst(q, topicId, payloads, uuid0, ts) ==
    IF payloads = <<>> THEN Result(q, Undefined, FALSE, <<>>)
    ELSE LET p == publish(q, topicId, payloads[Len(payloads)],
                          generateUUID(uuid0), ts)
             r == publishBatchLastFirst(p.q, topicId,
                     SubSeq(payloads, 1, Len(payloads) - 1), uuid0 + 1, ts)
         IN IF Hangs(p) THEN p
            ELSE Result(r.q, Undefined, FALSE, p.ev \o r.ev)

\* the loop of publishBatchById; the k-th publish draws the k-th UUID after
\* uuid0 (generateUUID is called once per message)
RECURSIVE publishBatchById(_, _, _, _, _)
publishBatchById(q, topicId, payloads, uuid0, ts) ==
    IF payloads = <<>> THEN Result(q, Undefined, FALSE, <<>>)
    ELSE LET p == publish(q, topicId, Head(payloads), generateUUID(uuid0), ts)
             r == publishBatchById(p.q, topicId, Tail(payloads), uuid0 + 1, ts)
         IN IF Hangs(p) THEN p
            ELSE Result(r.q, Undefined, FALSE, p.ev \o r.ev)

\* a value on the channel that is not an array (a string, say): arrays are
\* the functions of domain 1..n, this one has 0 in its domain
NonArray == [k \in {0} |-> "hello"]

\* Array.isArray(data)
IsArray(data) == 0 \notin DOMAIN data

\* handleChannelMessage that hands the message to broadcast after the
\* dispatch, as publish does
handleChannelMessageRelay(q, data) ==
    IF q.isClosed THEN Result(q, Undefined, FALSE, <<>>)
    ELSE LET type == data[1]
             wireMsg == data[2]
         IN IF type # 0 THEN Result(q, Undefined, FALSE, <<>>)
            ELSE IF wireMsg.id \in q.seenIds
            THEN Result(q, Undefined, FALSE, <<>>)
            ELSE LET q1 == [q EXCEPT !.seenIds = @ \cup {wireMsg.id}]
                 IN IF wireMsg.origin_id = q.clientId
                    THEN Result(q1, Undefined, FALSE, <<>>)
                    ELSE LET reg == registerTopic(q1, wireMsg.topic_name)
                             msg == [id |-> wireMsg.id, topic_id |-> reg.ret,
                                     origin_id |-> wireMsg.origin_id,
                                     payload |-> wireMsg.payload,
                                     timestamp |-> wireMsg.timestamp]
                             d == dispatchLocal(reg.q, msg)
                             b == broadcast(d.q, msg)
                         IN Result(b.q, Undefined, FALSE,
                                   reg.ev \o d.ev \o b.ev)

\* handleChannelMessage that drops a message for a topic name the instance
\* has not registered
handleChannelMessageKnownOnly(q, data) ==
    IF q.isClosed THEN Result(q, Undefined, FALSE, <<>>)
    ELSE LET type == data[1]
             wireMsg == data[2]
         IN IF type # 0 THEN Result(q, Undefined, FALSE, <<>>)
            ELSE IF wireMsg.id \in q.seenIds
            THEN Result(q, Undefined, FALSE, <<>>)
            ELSE LET q1 == [q EXCEPT !.seenIds = @ \cup {wireMsg.id}]
                 IN IF \/ wireMsg.origin_id = q.clientId
                       \/ wireMsg.topic_name \notin DOMAIN q.topicIndex
                    THEN Result(q1, Undefined, FALSE, <<>>)
                    ELSE LET reg == registerTopic(q1, wireMsg.topic_name)
                             msg == [id |-> wireMsg.id, topic_id |-> reg.ret,
                                     origin_id |-> wireMsg.origin_id,
                                     payload |-> wireMsg.payload,
                                     timestamp |-> wireMsg.timestamp]
                             d == dispatchLocal(reg.q, msg)
                         IN Result(d.q, Undefined, FALSE, reg.ev \o d.ev)

\* handleChannelMessage that dispatches under the sender's topic ID
handleChannelMessageSenderId(q, data) ==
    IF q.isClosed THEN Result(q, Undefined, FALSE, <<>>)
    ELSE LET type == data[1]
             wireMsg == data[2]
         IN IF type # 0 THEN Result(q, Undefined, FALSE, <<>>)
            ELSE IF wireMsg.id \in q.seenIds
            THEN Result(q, Undefined, FALSE, <<>>)
            ELSE LET q1 == [q EXCEPT !.seenIds = @ \cup {wireMsg.id}]
                 IN IF wireMsg.origin_id = q.clientId
                    THEN Result(q1, Undefined, FALSE, <<>>)
                    ELSE LET reg == registerTopic(q1, wireMsg.topic_name)
                             msg == [id |-> wireMsg.id,
                                     topic_id |-> wireMsg.topic_id,
                                     origin_id |-> wireMsg.origin_id,
                                     payload |-> wireMsg.payload,
                                     timestamp |-> wireMsg.timestamp]
                             d == dispatchLocal(reg.q, msg)
                         IN Result(d.q, Undefined, FALSE, reg.ev \o d.ev)

\* handleChannelMessage without the look-up in seenIds
handleChannelMessageNoSeenCheck(q, data) ==
    IF q.isClosed THEN Result(q, Undefined, FALSE, <<>>)
    ELSE LET type == data[1]
             wireMsg == data[2]
         IN IF type # 0 THEN Result(q, Undefined, FALSE, <<>>)
            ELSE LET q1 == [q EXCEPT !.seenIds = @ \cup {wireMsg.id}]
                 IN IF wireMsg.origin_id = q.clientId
                    THEN Result(q1, Undefined, FALSE, <<>>)
                    ELSE LET reg == registerTopic(q1, wireMsg.topic_name)
                             msg == [id |-> wireMsg.id, topic_id |-> reg.ret,
                                     origin_id |-> wireMsg.origin_id,
                                     payload |-> wireMsg.payload,
                                     timestamp |-> wireMsg.timestamp]
                             d == dispatchLocal(reg.q, msg)
                         IN Result(d.q, Undefined, FALSE, reg.ev \o d.ev)

\* handleChannelMessage that invokes the subscribers of an inbound message
\* without pushing it into the buffer of the topic
handleChannelMessageNoBuffer(q, data) ==
    IF q.isClosed THEN Result(q, Undefined, FALSE, <<>>)
    ELSE LET type == data[1]
             wireMsg == data[2]
         IN IF type # 0 THEN Result(q, Undefined, FALSE, <<>>)
            ELSE IF wireMsg.id \in q.seenIds
            THEN Result(q, Undefined, FALSE, <<>>)
            ELSE LET q1 == [q EXCEPT !.seenIds = @ \cup {wireMsg.id}]
                 IN IF wireMsg.origin_id = q.clientId
                    THEN Result(q1, Undefined, FALSE, <<>>)
                    ELSE LET reg == registerTopic(q1, wireMsg.topic_name)
                             msg == [id |-> wireMsg.id, topic_id |-> reg.ret,
                                     origin_id |-> wireMsg.origin_id,
                                     payload |-> wireMsg.payload,
                                     timestamp |-> wireMsg.timestamp]
                             n == notify(reg.q, reg.ret, msg, -1)
                         IN Result(n.q, Undefined, FALSE,
                                   reg.ev \o <<DispatchEv(msg)>> \o n.ev)

\* const [type, payload] = data: an element the array does not have is
\* undefined.  An empty array has no kind (undefined is not 0); with kind 0
\* and no second element, reading wireMsg.id throws a TypeError before
\* anything is changed; elements after the second are not looked at.
handleChannelMessage(q, data) ==
    IF q.isClosed THEN Result(q, Undefined, FALSE, <<>>)
    ELSE IF ~IsArray(data) THEN Result(q, Undefined, FALSE, <<>>)
    ELSE IF Len(data) = 0 THEN Result(q, Undefined, FALSE, <<>>)
    ELSE LET type == data[1]
             wireMsg == data[2]
         IN IF type # 0 THEN Result(q, Undefined, FALSE, <<>>)
            ELSE IF Len(data) < 2 THEN Result(q, Undefined, TRUE, <<>>)
            ELSE IF wireMsg.id \in q.seenIds
            THEN Result(q, Undefined, FALSE, <<>>)
            ELSE LET q1 == [q EXCEPT !.seenIds = @ \cup {wireMsg.id}]
                 IN IF wireMsg.origin_id = q.clientId
                    THEN Result(q1, Undefined, FALSE, <<>>)
                    ELSE LET reg == registerTopic(q1, wireMsg.topic_name)
                             msg == [id |-> wireMsg.id, topic_id |-> reg.ret,
                                     origin_id |-> wireMsg.origin_id,
                                     payload |-> wireMsg.payload,
                                     timestamp |-> wireMsg.timestamp]
                             d == dispatchLocal(reg.q, msg)
                         IN Result(d.q, Undefined, FALSE, reg.ev \o d.ev)

\* destroyTopic that also starts the topic's subscription IDs again at 0
destroyTopicResetSubIds(q, topicId) ==
    LET topic == getTopic(q, topicId)
    IN IF topic = Undefined THEN Result(q, FALSE, FALSE, <<>>)
       ELSE Result(SetTopic(q, topicId,
                       [topic EXCEPT !.subscribers = <<>>, !.buffer = Null,
                                     !.nextSubId = 0]),
                   TRUE, FALSE, <<BufferEv("destroy", topicId)>>)

\* destroyTopic that also forgets the name of the topic
destroyTopicForgetName(q, topicId) ==
    LET topic == getTopic(q, topicId)
    IN IF topic = Undefined THEN Result(q, FALSE, FALSE, <<>>)
       ELSE LET q1 == SetTopic(q, topicId,
                          [topic EXCEPT !.subscribers = <<>>,
                                        !.buffer = Null])
                keep == DOMAIN q.topicIndex \ {topic.name}
            IN Result([q1 EXCEPT
                          !.topicIndex = [n \in keep |-> q.topicIndex[n]]],
                      TRUE, FALSE, <<BufferEv("destroy", topicId)>>)

destroyTopic(q, topicId) ==
    LET topic == getTopic(q, topicId)
    IN IF topic = Undefined THEN Result(q, FALSE, FALSE, <<>>)
       ELSE Result(SetTopic(q, topicId,
                       [topic EXCEPT !.subscribers = <<>>, !.buffer = Null]),
                   TRUE, FALSE, <<BufferEv("destroy", topicId)>>)

\* the positions of an event sequence that hold an event of kind k
Positions(ev, k) == {n \in DOMAIN ev : ev[n].ev = k}

(***************************************************************************)
(* The platform's BroadcastChannel.  Every instance is constructed with    *)
(* the same channel name.  postMessage queues the value for every other    *)
(* instance that holds an open channel at that moment; the events of one   *)
(* receiver are kept in the order they were posted.                        *)
(***************************************************************************)
\* the values posted by a call, in order
Posts(ev) ==
    LET posts == SelectSeq(ev, LAMBDA e : e.ev = "post")
    IN [k \in DOMAIN posts |-> posts[k].data]

\* the state after instance i made a call with result r
Apply(i, r) ==
    /\ mq' = [mq EXCEPT ![i] = r.q]
    /\ log' = [log EXCEPT ![i] = @ \o r.ev]
    /\ chan' = [j \in Instances |->
                  IF j # i /\ mq[j].channel THEN chan[j] \o Posts(r.ev)
                  ELSE chan[j]]
    /\ calls' = calls + 1
    /\ UNCHANGED <<rb, rbTrace, micro>>

(***************************************************************************)
(* The actions: one call of a public method of instance i, one channel     *)
(* event handled by instance i, or a tick of the clock.                    *)
(***************************************************************************)
RegisterTopic(i, name) ==
    /\ Apply(i, registerTopic(mq[i], name))
    /\ UNCHANGED <<nextUUID, now>>

Subscribe(i, topicId, callback) ==
    /\ LET topic == getTopic(mq[i], topicId)
       IN topic # Undefined => topic.nextSubId < MaxSubs
    /\ Apply(i, subscribe(mq[i], topicId, callback))
    /\ UNCHANGED <<nextUUID, now>>

Unsubscribe(i, topicId, subId) ==
    /\ Apply(i, unsubscribe(mq[i], topicId, subId))
    /\ UNCHANGED <<nextUUID, now>>

UnsubscribeAll(i, topicId) ==
    /\ Apply(i, unsubscribeAll(mq[i], topicId))
    /\ UNCHANGED <<nextUUID, now>>

Publish(i, topicId, payload) ==
    /\ nextUUID < MaxMsgs
    /\ Apply(i, publish(mq[i], topicId, payload, generateUUID(nextUUID), now))
    /\ nextUUID' = nextUUID + 1
    /\ now' = now + 1

PublishBatchById(i, topicId, payloads) ==
    /\ nextUUID + Len(payloads) <= MaxMsgs
    /\ Apply(i, publishBatchById(mq[i], topicId, payloads, nextUUID, now))
    /\ nextUUID' = nextUUID + Len(payloads)
    /\ now' = now + 1

EnableTopicBuffer(i, topicId, capacity) ==
    /\ Apply(i, enableTopicBuffer(mq[i], topicId, capacity))
    /\ UNCHANGED <<nextUUID, now>>

DisableTopicBuffer(i, topicId) ==
    /\ Apply(i, disableTopicBuffer(mq[i], topicId))
    /\ UNCHANGED <<nextUUID, now>>

ClearBuffer(i, topicId) ==
    /\ Apply(i, clearBuffer(mq[i], topicId))
    /\ UNCHANGED <<nextUUID, now>>

DestroyTopic(i, topicId) ==
    /\ Apply(i, destroyTopic(mq[i], topicId))
    /\ UNCHANGED <<nextUUID, now>>

Close(i) ==
    /\ Apply(i, close(mq[i]))
    /\ UNCHANGED <<nextUUID, now>>

\* the state after instance i handled the channel event data with result r
Handled(i, data, r) ==
    /\ mq' = [mq EXCEPT ![i] = r.q]
    /\ log' = [log EXCEPT ![i] = @ \o <<ReceiveEv(data)>> \o r.ev]
    /\ calls' = calls + 1
    /\ UNCHANGED <<nextUUID, now, rb, rbTrace, micro>>

\* the channel hands instance i its next event
Deliver(i) ==
    /\ chan[i] # <<>>
    /\ Handled(i, Head(chan[i]), handleChannelMessage(mq[i], Head(chan[i])))
    /\ chan' = [chan EXCEPT ![i] = Tail(@)]

\* the channel hands instance i its next event and will hand it over again
DeliverTwice(i) ==
    /\ chan[i] # <<>>
    /\ Handled(i, Head(chan[i]), handleChannelMessage(mq[i], Head(chan[i])))
    /\ UNCHANGED chan

\* payload lists handed to publishBatchById
Batches == {<<>>, <<"p">>, <<"p", "r">>}

Init ==
    /\ mq = [i \in Instances |-> NewMessageQueue(i, TRUE)]
    /\ chan = [i \in Instances |-> <<>>]
    /\ nextUUID = 0
    /\ now = 0
    /\ log = [i \in Instances |-> <<>>]
    /\ calls = 0
    /\ rb = RBNew(0)
    /\ rbTrace = <<>>
    /\ micro = <<>>

\* one instance used on its own: every method, every argument
Next ==
    \/ calls < MaxCalls /\ \E name \in Names : RegisterTopic("A", name)
    \/ calls < MaxCalls
       /\ \E t \in TopicIds(mq["A"]), cb \in Callbacks : Subscribe("A", t, cb)
    \/ calls < MaxCalls
       /\ \E t \in TopicIds(mq["A"]) : \E s \in SubIdsFor(mq["A"], t) :
          Unsubscribe("A", t, s)
    \/ calls < MaxCalls /\ \E t \in TopicIds(mq["A"]) : UnsubscribeAll("A", t)
    \/ calls < MaxCalls
       /\ \E t \in TopicIds(mq["A"]), p \in Payloads : Publish("A", t, p)
    \/ calls < MaxCalls
       /\ \E t \in TopicIds(mq["A"]), ps \in Batches : PublishBatchById("A", t, ps)
    \/ calls < MaxCalls /\ \E t \in TopicIds(mq["A"]), c \in Capacities :
          EnableTopicBuffer("A", t, c)
    \/ calls < MaxCalls
       /\ \E t \in TopicIds(mq["A"]) : DisableTopicBuffer("A", t)
    \/ calls < MaxCalls /\ \E t \in TopicIds(mq["A"]) : ClearBuffer("A", t)
    \/ calls < MaxCalls /\ \E t \in TopicIds(mq["A"]) : DestroyTopic("A", t)
    \/ calls < MaxCalls /\ Close("A")

Spec == Init /\ [][Next]_vars

\* the instances of two tabs on one channel, each used with registered
\* topic IDs
NextNet ==
    \/ calls < MaxNetCalls
       /\ \E i \in Instances, name \in Names : RegisterTopic(i, name)
    \/ calls < MaxNetCalls
       /\ \E i \in Instances : \E t \in Registered(mq[i]) : Subscribe(i, t, "ok")
    \/ calls < MaxNetCalls
       /\ \E i \in Instances : \E t \in Registered(mq[i]), p \in Payloads :
          Publish(i, t, p)
    \/ calls < MaxNetCalls /\ \E i \in Instances : \E t \in Registered(mq[i]) :
          EnableTopicBuffer(i, t, MaxCap)
    \/ calls < MaxNetCalls
       /\ \E i \in Instances : \E t \in Registered(mq[i]) : DestroyTopic(i, t)
    \/ calls < MaxNetCalls /\ \E i \in Instances : Close(i)
    \/ calls < MaxNetCalls /\ \E i \in Instances : Deliver(i)
    \/ calls < MaxNetCalls /\ \E i \in Instances : DeliverTwice(i)

SpecNet == Init /\ [][NextNet]_vars

(***************************************************************************)
(* A sender B and a receiver A on one channel, on which further contexts   *)
(* post values of their own.  B's callbacks may publish; A receives.       *)
(***************************************************************************)
\* the envelope of the wire format that a third context C posts for the
\* message ID that the next publish will draw
ForeignEnvelope ==
    [id |-> generateUUID(nextUUID), topic_name |-> "x", origin_id |-> "C",
     payload |-> "p", timestamp |-> now]

\* the values of other shapes than [0, envelope] that the third context posts
InboundValue(k, env) ==
    CASE k = 1 -> <<1, env>>
      [] k = 2 -> NonArray
      [] k = 3 -> <<>>
      [] k = 4 -> <<1>>
      [] k = 5 -> <<1, env, "extra">>
      [] k = 6 -> <<0>>
      [] OTHER -> <<0, env, "extra">>

\* the shapes whose kind is not 0 or that are not arrays
OtherKinds == 1..5

\* the arrays of kind 0 that have not two elements
KindZeroShapes == {6, 7}

Shapes == OtherKinds \cup KindZeroShapes

\* the third context posts a value when instance i has nothing waiting; the
\* channel queues it for instance i
Inject(i, k) ==
    /\ chan[i] = <<>>
    /\ chan' = [chan EXCEPT ![i] = Append(@, InboundValue(k, ForeignEnvelope))]
    /\ calls' = calls + 1
    /\ UNCHANGED <<mq, log, nextUUID, now, rb, rbTrace, micro>>

NextWire ==
    \/ calls < MaxWireCalls /\ \E i \in Instances : RegisterTopic(i, "x")
    \/ calls < MaxWireCalls
       /\ \E i \in Instances : \E t \in Registered(mq[i]), cb \in {"ok", "pub"} :
          (i = "A" => cb = "ok") /\ Subscribe(i, t, cb)
    \/ calls < MaxWireCalls
       /\ \E i \in Instances : \E t \in Registered(mq[i]) :
          EnableTopicBuffer(i, t, MaxCap)
    \/ calls < MaxWireCalls
       /\ \E t \in Registered(mq["B"]), p \in Payloads : Publish("B", t, p)
    \/ calls < MaxWireCalls /\ Deliver("A")
    \/ calls < MaxWireCalls /\ \E k \in Shapes : Inject("A", k)

SpecWire == Init /\ [][NextWire]_vars

(***************************************************************************)
(* Deferred publishes.  publishAsync is an async function that returns     *)
(* new Promise(resolve => queueMicrotask(() => { publish; resolve() })):   *)
(* the call queues the function and, because the async function returns a  *)
(* promise, the job that subscribes the returned promise to the inner one. *)
(* Microtasks run one at a time, each to completion, in queue order.       *)
(***************************************************************************)
\* queueMicrotask that puts the job at the front of the queue
queueMicrotaskFront(queue, job) == <<job>> \o queue

queueMicrotask(queue, job) == Append(queue, job)

PublishJob(pid, topicId, payload) ==
    [job |-> "publish", pid |-> pid, topic_id |-> topicId, payload |-> payload]

PromiseJob(kind, pid) ==
    [job |-> kind, pid |-> pid, topic_id |-> 0, payload |-> "p"]

\* publishAsync that queues its function twice
publishAsyncTwice(queue, pid, topicId, payload) ==
    queueMicrotask(
        queueMicrotask(
            queueMicrotask(queue, PublishJob(pid, topicId, payload)),
            PublishJob(pid, topicId, payload)),
        PromiseJob("thenable", pid))

\* the microtask queue after call number pid of publishAsync
publishAsync(queue, pid, topicId, payload) ==
    queueMicrotask(queueMicrotask(queue, PublishJob(pid, topicId, payload)),
                   PromiseJob("thenable", pid))

\* the publishAsync calls made so far
AsyncCalls == Positions(log["A"], "async")

\* whether step kind of call number pid has happened
Happened(kind, pid) ==
    \E n \in Positions(log["A"], kind) : log["A"][n].pid = pid

\* the queued functions that have not run yet
Pending == SelectSeq(micro, LAMBDA j : j.job = "publish")

PublishAsync(i, topicId, payload) ==
    LET pid == Cardinality(AsyncCalls) + 1
    IN /\ micro' = publishAsync(micro, pid, topicId, payload)
       /\ log' = [log EXCEPT ![i] = Append(@, AsyncEv(pid, topicId, payload))]
       /\ calls' = calls + 1
       /\ UNCHANGED <<mq, chan, nextUUID, now, rb, rbTrace>>

\* the program queues a microtask of its own
QueueOther ==
    /\ micro' = queueMicrotask(micro, PromiseJob("other", 0))
    /\ calls' = calls + 1
    /\ UNCHANGED <<mq, chan, log, nextUUID, now, rb, rbTrace>>

\* the event loop runs the microtask at the head of the queue
RunMicrotask ==
    /\ micro # <<>>
    /\ LET j == Head(micro)
           rest == Tail(micro)
       IN CASE j.job = "publish" ->
                 LET r == publish(mq["A"], j.topic_id, j.payload,
                                  generateUUID(nextUUID), now)
                 IN /\ mq' = [mq EXCEPT !["A"] = r.q]
                    /\ log' = [log EXCEPT !["A"] =
                                 @ \o <<PromiseEv("run", j.pid)>> \o r.ev
                                   \o <<PromiseEv("done", j.pid)>>]
                    /\ chan' = [i \in Instances |->
                                  IF i # "A" /\ mq[i].channel
                                  THEN chan[i] \o Posts(r.ev) ELSE chan[i]]
                    /\ nextUUID' = nextUUID + 1
                    /\ now' = now + 1
                    /\ micro' = IF Happened("then", j.pid)
                                THEN queueMicrotask(rest,
                                        PromiseJob("settle", j.pid))
                                ELSE rest
            [] j.job = "thenable" ->
                 /\ log' = [log EXCEPT !["A"] =
                              Append(@, PromiseEv("then", j.pid))]
                 /\ micro' = IF Happened("done", j.pid)
                             THEN queueMicrotask(rest,
                                     PromiseJob("settle", j.pid))
                             ELSE rest
                 /\ UNCHANGED <<mq, chan, nextUUID, now>>
            [] j.job = "settle" ->
                 /\ log' = [log EXCEPT !["A"] =
                              Append(@, PromiseEv("settle", j.pid))]
                 /\ micro' = rest
                 /\ UNCHANGED <<mq, chan, nextUUID, now>>
            [] OTHER ->
                 /\ micro' = rest
                 /\ UNCHANGED <<mq, chan, log, nextUUID, now>>
    /\ UNCHANGED <<calls, rb, rbTrace>>

\* the program may make a call that draws a UUID
CanPublish == nextUUID + Len(Pending) < MaxMsgs

NextAsync ==
    \/ calls < MaxAsyncCalls /\ RegisterTopic("A", "x")
    \/ calls < MaxAsyncCalls
       /\ \E t \in Registered(mq["A"]), cb \in Callbacks : Subscribe("A", t, cb)
    \/ calls < MaxAsyncCalls
       /\ \E t \in Registered(mq["A"]) :
          \E s \in SubIds(mq["A"].topics[t + 1].subscribers) :
             Unsubscribe("A", t, s)
    \/ calls < MaxAsyncCalls /\ CanPublish
       /\ \E t \in Registered(mq["A"]), p \in Payloads : Publish("A", t, p)
    \/ calls < MaxAsyncCalls /\ CanPublish
       /\ \E t \in Registered(mq["A"]), p \in Payloads : PublishAsync("A", t, p)
    \/ calls < MaxAsyncCalls /\ QueueOther
    \/ RunMicrotask

SpecAsync == Init /\ [][NextAsync]_vars

\* a RunMicrotask step told by what it does to the queue and to the number
\* of calls: the head job leaves, and at most the job that fulfils the
\* returned promise of the same call joins.  The steps of NextAsync that are
\* of this kind are the RunMicrotask steps, and one is possible exactly when
\* the queue is not empty.
EventLoopStep ==
    /\ micro # <<>>
    /\ calls' = calls
    /\ micro' \in {Tail(micro),
                   queueMicrotask(Tail(micro),
                                  PromiseJob("settle", Head(micro).pid))}

\* the event loop keeps running microtasks while there are any
SpecAsyncFair == SpecAsync /\ WF_<<micro, calls>>(EventLoopStep)

(***************************************************************************)
(* One instance whose subscriber callbacks call back into it.  A publish   *)
(* whose dispatch hangs never returns, and the program makes no call       *)
(* after it.                                                               *)
(***************************************************************************)
Hung(i) == \E n \in DOMAIN log[i] : log[i][n].ev = "hang"

CanCall == calls < MaxCbCalls /\ ~Hung("A")

NextCb ==
    \/ CanCall /\ \E name \in Names : RegisterTopic("A", name)
    \/ CanCall
       /\ \E t \in Registered(mq["A"]) :
          \E cb \in Callbacks \cup ReentrantCallbacks : Subscribe("A", t, cb)
    \/ CanCall
       /\ \E t \in Registered(mq["A"]) :
          \E s \in SubIds(mq["A"].topics[t + 1].subscribers) :
             Unsubscribe("A", t, s)
    \/ CanCall
       /\ \E t \in Registered(mq["A"]), p \in Payloads : Publish("A", t, p)
    \/ CanCall
       /\ \E t \in Registered(mq["A"]), c \in 1..MaxCap :
          EnableTopicBuffer("A", t, c)

SpecCb == Init /\ [][NextCb]_vars

(***************************************************************************)
(* One instance that gets closed: by the program or by a subscriber        *)
(* callback, with deferred publishes queued and channel events waiting.    *)
(* Another context posts messages for topic "x" on the channel.            *)
(***************************************************************************)
\* what the subscriber callbacks of this program do
ClosingCallbacks == {"ok", "close"}

\* another context publishes to its topic "x"; the channel queues the
\* envelope for instance i when it holds an open channel
InjectMessage(i) ==
    /\ mq[i].channel
    /\ chan[i] = <<>>
    /\ chan' = [chan EXCEPT ![i] = Append(@, <<0, ForeignEnvelope>>)]
    /\ nextUUID' = nextUUID + 1
    /\ calls' = calls + 1
    /\ UNCHANGED <<mq, log, now, rb, rbTrace, micro>>

NextClose ==
    \/ calls < MaxCloseCalls /\ RegisterTopic("A", "x")
    \/ calls < MaxCloseCalls
       /\ \E t \in Registered(mq["A"]), cb \in ClosingCallbacks :
          Subscribe("A", t, cb)
    \/ calls < MaxCloseCalls /\ CanPublish
       /\ \E t \in Registered(mq["A"]) : Publish("A", t, "p")
    \/ calls < MaxCloseCalls /\ CanPublish
       /\ \E t \in Registered(mq["A"]) : PublishAsync("A", t, "p")
    \/ calls < MaxCloseCalls /\ CanPublish /\ InjectMessage("A")
    \/ calls < MaxCloseCalls /\ Close("A")
    \/ calls < MaxCloseCalls /\ Deliver("A")
    \/ RunMicrotask

SpecClose == Init /\ [][NextClose]_vars

(***************************************************************************)
(* A RingBuffer on its own: constructed with some capacity, then any       *)
(* calls.  Items are objects or null.                                      *)
(***************************************************************************)
Items == {[v |-> 1], [v |-> 2]}

RBPush(item) ==
    /\ Len(rbTrace) < MaxRBOps
    /\ rb' = push(rb, item).rb
    /\ rbTrace' = Append(rbTrace, [op |-> "push", item |-> item])
    /\ UNCHANGED <<mq, chan, nextUUID, now, log, calls, micro>>

RBPop ==
    /\ Len(rbTrace) < MaxRBOps
    /\ rb' = pop(rb).rb
    /\ rbTrace' = Append(rbTrace, [op |-> "pop"])
    /\ UNCHANGED <<mq, chan, nextUUID, now, log, calls, micro>>

RBClear ==
    /\ Len(rbTrace) < MaxRBOps
    /\ rb' = clear(rb).rb
    /\ rbTrace' = Append(rbTrace, [op |-> "clear"])
    /\ UNCHANGED <<mq, chan, nextUUID, now, log, calls, micro>>

InitRB ==
    /\ mq = [i \in Instances |-> NewMessageQueue(i, TRUE)]
    /\ chan = [i \in Instances |-> <<>>]
    /\ nextUUID = 0
    /\ now = 0
    /\ log = [i \in Instances |-> <<>>]
    /\ rb \in {RBNew(c) : c \in Capacities}
    /\ calls = 0
    /\ rbTrace = <<>>
    /\ micro = <<>>

NextRB ==
    \/ \E item \in Items \cup {Null} : RBPush(item)
    \/ RBPop
    \/ RBClear

SpecRB == InitRB /\ [][NextRB]_vars

(***************************************************************************)
(* Reading a trace.                                                        *)
(***************************************************************************)
\* the events of kind k in an event sequence, in order
EventsOf(ev, k) == SelectSeq(ev, LAMBDA e : e.ev = k)

\* the elements of a finite set of numbers in increasing order
RECURSIVE Ascending(_)
Ascending(S) ==
    IF S = {} THEN <<>>
    ELSE LET m == CHOOSE x \in S : \A y \in S : x <= y
         IN <<m>> \o Ascending(S \ {m})

\* the largest element of a finite set of positions, 0 when it is empty
Last(S) == IF S = {} THEN 0 ELSE CHOOSE x \in S : \A y \in S : y <= x

(***************************************************************************)
(* The properties.  A property of a method is stated for every call that   *)
(* can be made in a reachable state: the method, applied to the state, is  *)
(* compared with what the property expects.                                *)
(***************************************************************************)

\* C1: on an instance that is not closed, one publish to a topic with k
\* subscribers invokes each of them exactly once, in the order they
\* subscribed (subscription IDs are issued in increasing order), each with
\* the same (payload, topic_id, timestamp, message_id).
C1_PublishInvokesEachOnceInOrder ==
    LET q == mq["A"]
        uuid == generateUUID(nextUUID)
    IN ~q.isClosed =>
         \A t \in Registered(q), p \in Payloads :
            LET ids == Ascending(SubIds(q.topics[t + 1].subscribers))
            IN EventsOf(publish(q, t, p, uuid, now).ev, "call")
               = [k \in 1..Len(ids) |->
                    [ev |-> "call", sub |-> ids[k], payload |-> p,
                     topic_id |-> t, timestamp |-> now, id |-> uuid]]

\* C1 witness: a publish has invoked subscriber 0 and then subscriber 1 of
\* a topic with the same message
C1_Witness ==
    \E n \in DOMAIN log["A"] :
        /\ n + 2 <= Len(log["A"])
        /\ log["A"][n].ev = "dispatch"
        /\ log["A"][n + 1].ev = "call"
        /\ log["A"][n + 2].ev = "call"
        /\ log["A"][n + 1].sub = 0
        /\ log["A"][n + 2].sub = 1
        /\ log["A"][n + 1].id = log["A"][n].id
        /\ log["A"][n + 2].id = log["A"][n].id

\* C2: publish, and publishBatchById with a non-empty list, to a topic ID
\* that is not registered throws, does nothing (no dispatch, no callback,
\* no post) and leaves the instance as it was.
C2_PublishUnknownTopicThrows ==
    LET q == mq["A"]
        t == Len(q.topics)
    IN /\ \A p \in Payloads :
            LET r == publish(q, t, p, generateUUID(nextUUID), now)
            IN r.threw /\ r.ev = <<>> /\ r.q = q
       /\ \A ps \in Batches \ {<<>>} :
            LET r == publishBatchById(q, t, ps, nextUUID, now)
            IN r.threw /\ r.ev = <<>> /\ r.q = q

\* C3: on an instance that is not closed, when a callback throws during a
\* publish, every subscriber that subscribed after it is still invoked,
\* the message is posted to the channel when the instance holds one, and
\* publish does not throw.
C3_ThrowingCallbackIsIsolated ==
    LET q == mq["A"]
        uuid == generateUUID(nextUUID)
    IN ~q.isClosed =>
         \A t \in Registered(q), p \in Payloads :
            LET r == publish(q, t, p, uuid, now)
                subs == q.topics[t + 1].subscribers
                Called(id) == {n \in Positions(r.ev, "call") : r.ev[n].sub = id}
            IN /\ ~r.threw
               /\ \A a \in DOMAIN subs, b \in DOMAIN subs :
                     (subs[a].cb = "throw" /\ subs[a].id < subs[b].id) =>
                        \E m \in Called(subs[a].id), n \in Called(subs[b].id) :
                            m < n
               /\ q.channel =>
                     /\ r.ev # <<>>
                     /\ r.ev[Len(r.ev)].ev = "post"
                     /\ r.ev[Len(r.ev)].data[1] = 0
                     /\ r.ev[Len(r.ev)].data[2].id = uuid
                     /\ r.ev[Len(r.ev)].data[2].payload = p

\* C3 witness: a callback threw, a later subscriber was invoked with the
\* same message, and the message was posted
C3_Witness ==
    \E n \in DOMAIN log["A"] :
        /\ n + 2 <= Len(log["A"])
        /\ log["A"][n].ev = "error"
        /\ log["A"][n + 1].ev = "call"
        /\ log["A"][n + 1].sub > log["A"][n].sub
        /\ log["A"][n + 2].ev = "post"
        /\ log["A"][n + 2].data[2].id = log["A"][n + 1].id

\* the payloads dispatched to topic ID t after position n of a trace
DispatchedAfter(ev, t, n) ==
    LET d == SelectSeq(SubSeq(ev, n + 1, Len(ev)),
                       LAMBDA e : e.ev = "dispatch" /\ e.topic_id = t)
    IN [k \in DOMAIN d |-> d[k].payload]

\* the position of the last enableTopicBuffer of topic ID t in a trace
LastEnable(ev, t) ==
    Last({n \in Positions(ev, "buffer") :
            ev[n].op = "enable" /\ ev[n].topic_id = t})

OnlyPushes == \A n \in DOMAIN rbTrace : rbTrace[n].op = "push"

\* the items pushed, in order (for a trace of pushes)
Pushed == [n \in DOMAIN rbTrace |-> rbTrace[n].item]

\* C5: after n pushes into a fresh RingBuffer of capacity C, getAll has
\* length min(n, C) and is the last min(n, C) items pushed, oldest first.
C5_SnapshotIsLastPushes ==
    OnlyPushes =>
        /\ Len(getAll(rb)) = Min(Len(rbTrace), getCapacity(rb))
        /\ getAll(rb) = LastN(Pushed, getCapacity(rb))

\* the same for pushes of objects: no item pushed is null, the value the
\* buffer keeps in an empty slot
SnapshotIsLastPushesOfObjects ==
    (OnlyPushes /\ \A n \in DOMAIN rbTrace : rbTrace[n].item # Null) =>
        /\ Len(getAll(rb)) = Min(Len(rbTrace), getCapacity(rb))
        /\ getAll(rb) = LastN(Pushed, getCapacity(rb))

\* C6: after any calls of push, pop and clear, with any items,
\* 0 <= len() <= capacity.
C6_LenWithinCapacity == 0 <= len(rb) /\ len(rb) <= getCapacity(rb)

\* the slots of instance q that hold the topic called name
Slots(q, name) == {k \in DOMAIN q.topics : q.topics[k].name = name}

\* the position of the last close in a trace, 0 when there is none
LastClose(ev) == Last(Positions(ev, "close"))

\* C7: registerTopic with a name that has a slot returns the ID of that
\* slot (the only one of that name) and adds none, and calling it again
\* changes nothing; with a new name it appends one slot and returns its
\* index, the number of slots there were.  The IDs it has handed out for
\* new names (by a call or for an inbound message) are 0, 1, 2, ... in
\* that order.
C7_RegisterIdempotentAndDense ==
    \A i \in Instances :
        /\ \A name \in Names :
              LET q == mq[i]
                  r == registerTopic(q, name)
              IN /\ IF Slots(q, name) # {}
                    THEN /\ Slots(q, name) = {r.ret + 1}
                         /\ r.q.topics = q.topics
                    ELSE /\ r.ret = Len(q.topics)
                         /\ Len(r.q.topics) = Len(q.topics) + 1
                         /\ SubSeq(r.q.topics, 1, Len(q.topics)) = q.topics
                         /\ r.q.topics[r.ret + 1].name = name
                 /\ registerTopic(r.q, name).ret = r.ret
                 /\ registerTopic(r.q, name).q = r.q
        /\ LET reg == EventsOf(SubSeq(log[i], LastClose(log[i]) + 1,
                                      Len(log[i])), "register")
           IN /\ \A k \in DOMAIN reg : reg[k].id = k - 1
              /\ Len(reg) = Len(mq[i].topics)

\* C7 witness: an instance registered its second topic for an inbound
\* message
C7_Witness ==
    \E i \in Instances : \E n \in DOMAIN log[i] :
        /\ n + 1 <= Len(log[i])
        /\ log[i][n].ev = "receive"
        /\ log[i][n + 1].ev = "register"
        /\ log[i][n + 1].id = 1
        /\ Len(mq[i].topics) = 2

\* C8: once registerTopic has returned an ID for a name, every later
\* registerTopic of that name returns that ID and no registerTopic of
\* another name does, whatever was called in between (close included).
C8_TopicIdsStableNeverReused ==
    \A i \in Instances : \A n \in Positions(log[i], "register") :
        \A name \in Names :
            (registerTopic(mq[i], name).ret = log[i][n].id)
                <=> (name = log[i][n].name)

\* the number of events of kind k for message ID m in a trace
Count(ev, k, m) == Cardinality({n \in Positions(ev, k) : ev[n].id = m})

\* C9: when the channel hands an open instance an envelope it has not
\* seen, published by the other instance on a topic name the receiver has
\* registered, each subscriber of the receiver's topic of that name is
\* invoked exactly once with the sender's payload; and however often the
\* channel hands the envelope over, no subscriber is invoked twice with
\* the same message.
C9_RemoteMessageDeliveredOnce ==
    \A i \in Instances :
        /\ \A n \in Positions(log[i], "call") :
              Cardinality({m \in Positions(log[i], "call") :
                              /\ log[i][m].id = log[i][n].id
                              /\ log[i][m].sub = log[i][n].sub
                              /\ log[i][m].topic_id = log[i][n].topic_id}) = 1
        /\ (chan[i] # <<>> /\ ~mq[i].isClosed) =>
              LET w == Head(chan[i])[2]
                  q == mq[i]
                  r == handleChannelMessage(q, Head(chan[i]))
              IN (w.id \notin q.seenIds /\ w.topic_name \in DOMAIN q.topicIndex)
                 => LET t == q.topicIndex[w.topic_name]
                        ids == Ascending(SubIds(q.topics[t + 1].subscribers))
                    IN EventsOf(r.ev, "call")
                       = [k \in 1..Len(ids) |->
                            [ev |-> "call", sub |-> ids[k],
                             payload |-> w.payload, topic_id |-> t,
                             timestamp |-> w.timestamp, id |-> w.id]]

\* C9 witness: instance A was handed the same envelope of B twice and its
\* subscriber was invoked once for it
C9_Witness ==
    \E m \in 1..MaxMsgs :
        /\ Cardinality({n \in Positions(log["A"], "receive") :
                           log["A"][n].data[2].id = m}) = 2
        /\ Count(log["A"], "call", m) = 1
        /\ \E n \in Positions(log["B"], "post") :
              log["B"][n].data[2].id = m

\* the envelopes that have been posted by any instance
Posted ==
    UNION {{log[i][n].data : n \in Positions(log[i], "post")} : i \in Instances}

\* C10: an instance runs the dispatcher at most once for a message ID,
\* over all its publishes and all the envelopes it is handed; an open
\* instance that is handed an envelope whose ID is in its seen-set (a
\* duplicate, or its own message coming back) does nothing: no callback,
\* no dispatch, no change of its state.
C10_DispatchAtMostOncePerId ==
    \A i \in Instances :
        /\ \A m \in 1..MaxMsgs : Count(log[i], "dispatch", m) <= 1
        /\ ~mq[i].isClosed =>
              \A data \in Posted :
                  data[2].id \in mq[i].seenIds =>
                      LET r == handleChannelMessage(mq[i], data)
                      IN r.ev = <<>> /\ r.q = mq[i]

\* C10 witness: an open instance was handed an envelope twice and ran the
\* dispatcher once for it
C10_Witness ==
    \E i \in Instances : \E m \in 1..MaxMsgs :
        /\ ~mq[i].isClosed
        /\ Cardinality({n \in Positions(log[i], "receive") :
                           log[i][n].data[2].id = m}) = 2
        /\ Count(log[i], "dispatch", m) = 1

\* the envelopes waiting in the channel for instance i
Waiting(i) == {chan[i][n] : n \in DOMAIN chan[i]}

\* the number of times any instance has posted message ID m
PostCount(m) ==
    LET PostsOf(i) == {n \in Positions(log[i], "post") :
                          log[i][n].data[2].id = m}
        RECURSIVE Sum(_)
        Sum(S) == IF S = {} THEN 0
                  ELSE LET i == CHOOSE i \in S : TRUE
                       IN Cardinality(PostsOf(i)) + Sum(S \ {i})
    IN Sum(Instances)

\* C11: handling an inbound channel value posts nothing; a publish on an
\* open instance that holds a channel, to a registered topic, posts exactly
\* one envelope; so every envelope an instance has posted carries its own
\* client ID as origin, and no message ID has been posted twice by anyone.
C11_InboundNeverRelayed ==
    \A i \in Instances :
        LET q == mq[i]
        IN /\ \A data \in Posted \cup Waiting(i) :
                 EventsOf(handleChannelMessage(q, data).ev, "post") = <<>>
           /\ (q.channel /\ ~q.isClosed) =>
                 \A t \in Registered(q), p \in Payloads :
                    Len(EventsOf(publish(q, t, p, generateUUID(nextUUID),
                                         now).ev, "post")) = 1
           /\ \A n \in Positions(log[i], "post") :
                 /\ log[i][n].data[2].origin_id = q.clientId
                 /\ PostCount(log[i][n].data[2].id) = 1

\* C11 witness: an instance dispatched an inbound message to a subscriber
\* and the message has been posted once, by its publisher
C11_Witness ==
    \E i \in Instances : \E n \in DOMAIN log[i] :
        /\ n + 2 <= Len(log[i])
        /\ log[i][n].ev = "receive"
        /\ log[i][n + 1].ev = "dispatch"
        /\ log[i][n + 2].ev = "call"
        /\ log[i][n + 1].id = log[i][n].data[2].id
        /\ log[i][n].data[2].origin_id # i
        /\ PostCount(log[i][n + 1].id) = 1
        /\ \A k \in Positions(log[i], "post") :
              log[i][k].data[2].id # log[i][n + 1].id

\* C12: when an open instance is handed an envelope of another instance
\* that it has not seen, the message goes to its topic of the envelope's
\* topic name, whatever topic ID the sender used: a name it has not
\* registered gets the next dense ID; the subscribers of that topic, and no
\* others, are invoked once each with the local topic ID and the sender's
\* payload, timestamp and message ID.
C12_ReconciledByName ==
    \A i \in Instances :
        ~mq[i].isClosed =>
            \A data \in Waiting(i) :
                LET q == mq[i]
                    w == data[2]
                    r == handleChannelMessage(q, data)
                    known == w.topic_name \in DOMAIN q.topicIndex
                    t == IF known THEN q.topicIndex[w.topic_name]
                         ELSE Len(q.topics)
                    ids == IF known
                           THEN Ascending(SubIds(q.topics[t + 1].subscribers))
                           ELSE <<>>
                IN w.id \notin q.seenIds =>
                      /\ w.topic_name \in DOMAIN r.q.topicIndex
                      /\ r.q.topicIndex[w.topic_name] = t
                      /\ r.q.topics[t + 1].name = w.topic_name
                      /\ Len(r.q.topics)
                            = Len(q.topics) + (IF known THEN 0 ELSE 1)
                      /\ EventsOf(r.ev, "dispatch")
                            = <<[ev |-> "dispatch", id |-> w.id,
                                 topic_id |-> t, payload |-> w.payload]>>
                      /\ EventsOf(r.ev, "call")
                            = [k \in 1..Len(ids) |->
                                 [ev |-> "call", sub |-> ids[k],
                                  payload |-> w.payload, topic_id |-> t,
                                  timestamp |-> w.timestamp, id |-> w.id]]

\* C12 witness: an instance invoked a subscriber for an inbound message
\* under a topic ID that differs from the one the sender used
C12_Witness ==
    \E i \in Instances : \E n \in DOMAIN log[i] :
        /\ n + 2 <= Len(log[i])
        /\ log[i][n].ev = "receive"
        /\ log[i][n + 1].ev = "dispatch"
        /\ log[i][n + 2].ev = "call"
        /\ log[i][n + 2].id = log[i][n].data[2].id
        /\ log[i][n + 2].payload = log[i][n].data[2].payload
        /\ log[i][n + 2].topic_id # log[i][n].data[2].topic_id

\* C13: on an instance that has been closed, a publish or a subscribe call
\* invokes no callback, posts nothing, changes no state and does not throw.
C13_NoEffectAfterClose ==
    LET q == mq["A"]
        Quiet(r) == /\ ~r.threw
                    /\ EventsOf(r.ev, "call") = <<>>
                    /\ EventsOf(r.ev, "post") = <<>>
                    /\ r.q.topics = q.topics
                    /\ r.q.topicIndex = q.topicIndex
    IN q.isClosed =>
          /\ \A t \in TopicIds(q), p \in Payloads :
                Quiet(publish(q, t, p, generateUUID(nextUUID), now))
          /\ \A t \in TopicIds(q), cb \in Callbacks :
                Quiet(subscribe(q, t, cb))

\* the publish half of C13: on a closed instance publish does nothing at
\* all
PublishAfterCloseDoesNothing ==
    LET q == mq["A"]
    IN q.isClosed =>
          \A t \in TopicIds(q), p \in Payloads :
             LET r == publish(q, t, p, generateUUID(nextUUID), now)
             IN ~r.threw /\ r.ev = <<>> /\ r.q = q

\* C14: an instance that has been closed has no registered topic, whatever
\* was called on it since, and its queries answer 0, false or empty for
\* every topic ID.
C14_ClosedStaysEmpty ==
    LET q == mq["A"]
    IN q.isClosed =>
          /\ Len(q.topics) = 0
          /\ q.topicIndex = EmptyMap
          /\ \A t \in 0..Cardinality(Names) :
                /\ subscriberCount(q, t) = 0
                /\ getBufferSize(q, t) = 0
                /\ getBufferCapacity(q, t) = 0
                /\ ~hasBuffer(q, t)
                /\ getBufferedMessages(q, t) = <<>>

\* the bridge of an instance only moves forward: a closed instance stays
\* closed and a released channel handle is not acquired again
BridgeOnlyMovesForward ==
    [][\A i \in Instances :
          /\ mq[i].isClosed => mq'[i].isClosed
          /\ ~mq[i].channel => ~mq'[i].channel]_vars

\* what close leaves behind, and what a closed instance does with the
\* channel: the handle is released and the registry and the seen-set are
\* empty right after close; a closed instance has posted nothing since its
\* close, keeps an empty seen-set and empty buffers, and ignores every
\* inbound value
ClosedBridgeIsSilent ==
    \A i \in Instances :
        LET q == mq[i]
            c == close(q).q
        IN /\ c.isClosed /\ ~c.channel
           /\ c.topics = <<>> /\ c.seenIds = {}
           /\ q.isClosed =>
                 /\ ~q.channel
                 /\ q.seenIds = {}
                 /\ \A t \in Registered(q) : getBufferSize(q, t) = 0
                 /\ \A n \in Positions(log[i], "post") :
                       n < LastClose(log[i])
                 /\ \A data \in Posted \cup Waiting(i) :
                       LET r == handleChannelMessage(q, data)
                       IN r.ev = <<>> /\ r.q = q

\* C15: the bridge only moves forward to Closed (a closed instance holds
\* no channel handle); close releases the handle and leaves the subscriber
\* tables, the buffers and the seen-set empty; a closed instance posts
\* nothing and ignores every inbound value; and close on a closed instance
\* changes nothing.
C15_BridgeLifecycle ==
    /\ ClosedBridgeIsSilent
    /\ \A i \in Instances :
          mq[i].isClosed => close(mq[i]).q = mq[i]

\* topic IDs that are not registered on instance q: the first two past
\* the registered ones
Unregistered(q) == {Len(q.topics), Len(q.topics) + 1}

\* C16: subscribe with a topic ID that is not registered throws to its
\* caller, returns no subscription ID and leaves the instance, with every
\* subscriber table and every nextSubId, as it was.
C16_SubscribeUnknownTopicThrows ==
    LET q == mq["A"]
    IN \A t \in Unregistered(q), cb \in Callbacks :
          LET r == subscribe(q, t, cb)
          IN /\ r.threw
             /\ r.ret = Undefined
             /\ r.q = q
             /\ EventsOf(r.ev, "subscribe") = <<>>

\* C16 witness: a subscribe on an instance with a subscribed topic threw
\* for the topic ID after it, and the topic still has its one subscriber
C16_Witness ==
    LET q == mq["A"]
        ev == log["A"]
    IN /\ Len(q.topics) = 1
       /\ ev # <<>>
       /\ ev[Len(ev)] = ThrowEv(1)
       /\ SubIds(q.topics[1].subscribers) = {0}
       /\ q.topics[1].nextSubId = 1

\* a call that did nothing: it did not throw, nothing happened, and the
\* instance is as it was
NoOp(q, r) == ~r.threw /\ r.ev = <<>> /\ r.q = q

\* C17: for a topic ID that is not registered, unsubscribe and destroyTopic
\* return false, unsubscribeAll, subscriberCount, clearBuffer,
\* getBufferSize and getBufferCapacity return 0, hasBuffer returns false,
\* getBufferedMessages returns an empty list, and enableTopicBuffer and
\* disableTopicBuffer do nothing; none of them throws or changes the
\* instance.
C17_UnknownTopicIsNoOp ==
    LET q == mq["A"]
    IN \A t \in Unregistered(q) :
          /\ \A s \in 0..MaxSubs :
                LET r == unsubscribe(q, t, s)
                IN NoOp(q, r) /\ r.ret = FALSE
          /\ LET r == destroyTopic(q, t)
             IN NoOp(q, r) /\ r.ret = FALSE
          /\ LET r == unsubscribeAll(q, t)
             IN NoOp(q, r) /\ r.ret = 0
          /\ LET r == clearBuffer(q, t)
             IN NoOp(q, r) /\ r.ret = 0
          /\ subscriberCount(q, t) = 0
          /\ getBufferSize(q, t) = 0
          /\ getBufferCapacity(q, t) = 0
          /\ hasBuffer(q, t) = FALSE
          /\ getBufferedMessages(q, t) = <<>>
          /\ \A c \in Capacities : NoOp(q, enableTopicBuffer(q, t, c))
          /\ NoOp(q, disableTopicBuffer(q, t))

\* C17 witness: calls were made on an instance that has no topic, so with
\* topic IDs that are not registered, and the instance is as constructed
C17_Witness ==
    /\ calls = 2
    /\ log["A"] = <<>>
    /\ mq["A"] = NewMessageQueue("A", TRUE)

\* C18: destroyTopic of a registered topic returns true and leaves the
\* topic without subscribers and without buffer; the topic keeps its slot,
\* name and ID (registerTopic of the name still returns the ID and adds no
\* slot), and every other topic and the rest of the instance are as they
\* were.
C18_DestroyIsSoftDelete ==
    LET q == mq["A"]
    IN \A t \in Registered(q) :
          LET r == destroyTopic(q, t)
              name == q.topics[t + 1].name
              reg == registerTopic(r.q, name)
          IN /\ r.ret = TRUE
             /\ ~r.threw
             /\ subscriberCount(r.q, t) = 0
             /\ ~hasBuffer(r.q, t)
             /\ r.q.topics[t + 1].name = name
             /\ r.q.topics[t + 1].id = t
             /\ Len(r.q.topics) = Len(q.topics)
             /\ r.q.topicIndex = q.topicIndex
             /\ reg.ret = t
             /\ reg.q = r.q
             /\ \A u \in Registered(q) \ {t} :
                   r.q.topics[u + 1] = q.topics[u + 1]
             /\ r.q.seenIds = q.seenIds
             /\ r.q.isClosed = q.isClosed
             /\ r.q.channel = q.channel

\* C18 witness: a topic that had a subscriber was destroyed while another
\* topic had one, and that other topic still has it
C18_Witness ==
    LET q == mq["A"]
        ev == log["A"]
    IN /\ Len(q.topics) = 2
       /\ ev # <<>>
       /\ ev[Len(ev)] = BufferEv("destroy", 0)
       /\ \E n \in Positions(ev, "subscribe") : ev[n].topic_id = 0
       /\ subscriberCount(q, 0) = 0
       /\ subscriberCount(q, 1) = 1
       /\ registerTopic(q, q.topics[1].name).ret = 0

\* the subscription IDs that subscribe has returned for topic ID t, in the
\* order of the calls
Issued(ev, t) ==
    LET subs == SelectSeq(ev, LAMBDA e : e.ev = "subscribe" /\ e.topic_id = t)
    IN [k \in DOMAIN subs |-> subs[k].sub]

\* C19: on an instance that has not been closed, the subscription IDs
\* issued for one topic start at 0 and are strictly increasing in the
\* order of the subscribe calls, whatever was unsubscribed or destroyed in
\* between, and the next subscribe returns an ID larger than all of them.
C19_SubscriptionIdsNeverReused ==
    LET q == mq["A"]
    IN ~q.isClosed =>
          \A t \in Registered(q) :
             LET ids == Issued(log["A"], t)
             IN /\ ids # <<>> => ids[1] = 0
                /\ \A j \in DOMAIN ids, k \in DOMAIN ids :
                      j < k => ids[j] < ids[k]
                /\ \A cb \in Callbacks :
                      LET r == subscribe(q, t, cb)
                      IN /\ ~r.threw
                         /\ \A k \in DOMAIN ids : ids[k] < r.ret
                         /\ ids = <<>> => r.ret = 0

\* C19 witness: subscription 0 of a topic was removed and the next
\* subscribe on the topic returned 1
C19_Witness ==
    LET ev == log["A"]
    IN /\ ~mq["A"].isClosed
       /\ \E a \in DOMAIN ev, b \in DOMAIN ev, c \in DOMAIN ev :
             /\ a < b /\ b < c
             /\ ev[a] = SubscribeEv(0, 0)
             /\ ev[b] = UnsubscribeEv(0, 0)
             /\ ev[c] = SubscribeEv(0, 1)

\* C20: unsubscribe(topic, sub) on a registered topic returns true exactly
\* when sub is subscribed on it; it then removes that subscription and
\* nothing else (the other subscriptions and their order, the buffer, the
\* ID counter and the other topics are as they were), and the same call
\* again returns false and changes nothing; when it returns false (a
\* removed ID, or one that was never issued) the instance is as it was.
C20_UnsubscribeRemovesOnlyThat ==
    LET q == mq["A"]
    IN \A t \in Registered(q), s \in 0..MaxSubs :
          LET topic == q.topics[t + 1]
              r == unsubscribe(q, t, s)
              after == r.q.topics[t + 1]
              again == unsubscribe(r.q, t, s)
              subscribed == \E k \in DOMAIN topic.subscribers :
                               topic.subscribers[k].id = s
          IN /\ ~r.threw
             /\ r.ret = subscribed
             /\ subscribed =>
                   /\ after.subscribers
                         = SelectSeq(topic.subscribers, LAMBDA e : e.id # s)
                   /\ Len(after.subscribers) = Len(topic.subscribers) - 1
                   /\ after.buffer = topic.buffer
                   /\ after.nextSubId = topic.nextSubId
                   /\ after.name = topic.name
                   /\ \A u \in Registered(q) \ {t} :
                         r.q.topics[u + 1] = q.topics[u + 1]
                   /\ r.q.topicIndex = q.topicIndex
                   /\ r.q.seenIds = q.seenIds
             /\ ~subscribed => (r.q = q /\ r.ev = <<>>)
             /\ s >= topic.nextSubId => ~subscribed
             /\ again.ret = FALSE
             /\ again.q = r.q

\* C20 witness: of two subscriptions of a topic the first was removed by
\* unsubscribe and the second is still there
C20_Witness ==
    LET q == mq["A"]
        ev == log["A"]
    IN /\ Len(q.topics) >= 1
       /\ ev # <<>>
       /\ ev[Len(ev)] = UnsubscribeEv(0, 0)
       /\ SubIds(q.topics[1].subscribers) = {1}
       /\ q.topics[1].nextSubId = 2

\* C21: once unsubscribe(topic, sub) has returned true, the callback of
\* sub is not invoked again for that topic, by no dispatch of any origin;
\* also when the unsubscribe call was made by the callback of sub itself
\* while it was being invoked.
C21_NoCallAfterUnsubscribe ==
    \A i \in Instances :
        \A n \in Positions(log[i], "unsubscribe") :
            \A m \in Positions(log[i], "call") :
                (/\ log[i][m].topic_id = log[i][n].topic_id
                 /\ log[i][m].sub = log[i][n].sub) => m < n

\* C21 witness: a callback unsubscribed itself while it was invoked, and a
\* later message was dispatched to the topic
C21_Witness ==
    LET ev == log["A"]
    IN \E n \in Positions(ev, "call") :
          /\ n + 1 <= Len(ev)
          /\ ev[n + 1] = UnsubscribeEv(ev[n].topic_id, ev[n].sub)
          /\ \E m \in Positions(ev, "dispatch") :
                m > n /\ ev[m].topic_id = ev[n].topic_id

\* the subscription IDs that a call invoked for message ID m, in order
Invoked(ev, m) ==
    LET c == SelectSeq(ev, LAMBDA e : e.ev = "call" /\ e.id = m)
    IN [k \in DOMAIN c |-> c[k].sub]

\* C28: a dispatch invokes each subscriber that the topic has when the
\* dispatch starts exactly once and no other, whatever the callbacks
\* subscribe or unsubscribe on the topic while it runs: a subscription
\* added during the dispatch is not invoked in it, one removed during the
\* dispatch is still invoked in it.
C28_DispatchIsPointInTime ==
    LET q == mq["A"]
        uuid == generateUUID(nextUUID)
    IN \A t \in Registered(q), p \in Payloads :
          Invoked(publish(q, t, p, uuid, now).ev, uuid)
             = Ascending(SubIds(q.topics[t + 1].subscribers))

\* what the loop over the live map does instead: no subscription is
\* invoked twice in one dispatch; the subscribers the topic has when the
\* dispatch starts are invoked unless they were removed before their turn;
\* a subscription added during the dispatch is invoked in it as well,
\* unless it was removed again before its turn (stated for the dispatches
\* that end)
DispatchIsLive ==
    LET q == mq["A"]
        uuid == generateUUID(nextUUID)
    IN \A t \in Registered(q), p \in Payloads :
          LET r == publish(q, t, p, uuid, now)
              ids == Invoked(r.ev, uuid)
              Removed == {r.ev[n].sub : n \in Positions(r.ev, "unsubscribe")}
              Added == {r.ev[n].sub :
                          n \in {k \in Positions(r.ev, "subscribe") :
                                    r.ev[k].topic_id = t}}
          IN /\ \A j \in DOMAIN ids, k \in DOMAIN ids :
                   j < k => ids[j] < ids[k]
             /\ ~Hangs(r) =>
                   (SubIds(q.topics[t + 1].subscribers) \cup Added) \ Removed
                      \subseteq {ids[k] : k \in DOMAIN ids}

\* C29: a publish returns to its caller, whatever the callbacks subscribe
\* or unsubscribe during the dispatch.
C29_PublishTerminates ==
    LET q == mq["A"]
    IN \A t \in Registered(q), p \in Payloads :
          ~Hangs(publish(q, t, p, generateUUID(nextUUID), now))

\* a publish returns when no callback it reaches subscribes a callback of
\* its own kind
PublishTerminatesWithoutSubSame ==
    LET q == mq["A"]
    IN \A t \in Registered(q), p \in Payloads :
          (\A k \in DOMAIN q.topics[t + 1].subscribers :
              q.topics[t + 1].subscribers[k].cb # "subSame")
          => ~Hangs(publish(q, t, p, generateUUID(nextUUID), now))

\* the positions in the events of a publish at which a callback invoked for
\* message ID m reads the buffered messages of the topic
ReadsIn(ev, m) ==
    {n \in Positions(ev, "read") :
        n > 1 /\ ev[n - 1].ev = "call" /\ ev[n - 1].id = m}

\* the order of the steps of one publish of message ID uuid on an instance
\* with a channel: the dispatch starts first, every callback invoked for the
\* message comes before its post, and the post is the last step
StepsInOrder(r, uuid) ==
    /\ r.ev # <<>>
    /\ r.ev[1].ev = "dispatch" /\ r.ev[1].id = uuid
    /\ r.ev[Len(r.ev)].ev = "post" /\ r.ev[Len(r.ev)].data[2].id = uuid
    /\ \A n \in Positions(r.ev, "post") :
          r.ev[n].data[2].id = uuid => n = Len(r.ev)

TwoPublishes(q, topicId, p1, p2, uuid0, ts) ==
    LET a == publish(q, topicId, p1, generateUUID(uuid0), ts)
        b == publish(a.q, topicId, p2, generateUUID(uuid0 + 1), ts)
    IN IF Hangs(a) THEN a
       ELSE Result(b.q, Undefined, FALSE, a.ev \o b.ev)

\* C22: publishBatchById(topicId, [p1, ..., pn]) does what the n calls
\* publish(topicId, p1); ...; publish(topicId, pn) do in that order: it
\* leaves the instance (buffers included) in the same state, invokes the
\* same callbacks in the same sequence, all of p1 before any of p2, and
\* posts n envelopes in input order, each with an ID of its own.
C22_BatchIsPublishesInOrder ==
    LET q == mq["A"]
    IN \A t \in TopicIds(q), ps \in Batches :
          LET r == publishBatchById(q, t, ps, nextUUID, now)
              e == CASE Len(ps) = 0 -> Result(q, Undefined, FALSE, <<>>)
                     [] Len(ps) = 1 ->
                          publish(q, t, ps[1], generateUUID(nextUUID), now)
                     [] OTHER ->
                          TwoPublishes(q, t, ps[1], ps[2], nextUUID, now)
              Own == {generateUUID(nextUUID + k - 1) : k \in DOMAIN ps}
              posts == SelectSeq(Posts(r.ev), LAMBDA d : d[2].id \in Own)
              called == SelectSeq(r.ev,
                           LAMBDA x : x.ev = "call" /\ x.id \in Own)
          IN /\ r.q = e.q
             /\ r.ev = e.ev
             /\ \A j \in DOMAIN called, k \in DOMAIN called :
                   j < k => called[j].id <= called[k].id
             /\ (posts # <<>> /\ ~Hangs(r)) =>
                   /\ Len(posts) = Len(ps)
                   /\ \A k \in DOMAIN posts :
                         /\ posts[k][2].payload = ps[k]
                         /\ posts[k][2].id = generateUUID(nextUUID + k - 1)

\* a batch of two payloads has been published on a topic with a subscriber:
\* two envelopes of the same time and of different IDs were posted, "p"
\* before "r", and the callback was invoked for "r" in between
C22_Witness ==
    LET ev == log["A"]
    IN \E m \in Positions(ev, "post"), n \in Positions(ev, "post") :
          /\ m < n
          /\ ev[m].data[2].timestamp = ev[n].data[2].timestamp
          /\ ev[m].data[2].id # ev[n].data[2].id
          /\ ev[m].data[2].payload = "p" /\ ev[n].data[2].payload = "r"
          /\ \E k \in Positions(ev, "call") :
                m < k /\ k < n /\ ev[k].id = ev[n].data[2].id

\* the fields of the envelope of the wire format
WireFields == {"id", "topic_name", "origin_id", "payload", "timestamp"}

\* what a publish of payload p on topic t of instance q posts, given the
\* set of fields its envelope may have: one value [0, envelope], the
\* envelope having exactly these fields, the name of topic t, the client ID
\* of q, the payload and the ID of the message
PostsEnvelope(q, t, p, fields) ==
    LET uuid == generateUUID(nextUUID)
        posts == Posts(publish(q, t, p, uuid, now).ev)
    IN /\ Len(posts) = 1
       /\ Len(posts[1]) = 2
       /\ posts[1][1] = 0
       /\ DOMAIN posts[1][2] = fields
       /\ posts[1][2].id = uuid
       /\ posts[1][2].topic_name = q.topics[t + 1].name
       /\ posts[1][2].origin_id = q.clientId
       /\ posts[1][2].payload = p
       /\ posts[1][2].timestamp = now

\* C25: every value an instance posts is [0, envelope], the envelope
\* carrying exactly the fields id, topic_name, origin_id, payload and
\* timestamp, with the name of the published topic and the client ID of
\* the publisher (stated for an instance that has not been closed).
C25_EnvelopeHasExactlyWireFields ==
    LET q == mq["A"]
    IN ~q.isClosed =>
          \A t \in Registered(q), p \in Payloads :
             PostsEnvelope(q, t, p, WireFields)

\* what is posted instead: the envelope has the wire fields and the
\* sender's numeric topic ID besides
EnvelopeCarriesTopicId ==
    LET q == mq["A"]
    IN ~q.isClosed =>
          \A t \in Registered(q), p \in Payloads :
             /\ PostsEnvelope(q, t, p, WireFields \cup {"topic_id"})
             /\ Posts(publish(q, t, p, generateUUID(nextUUID), now).ev)[1][2]
                   .topic_id = t

\* instance q ignores the inbound value data and afterwards still delivers
\* the kind-0 envelope env of the same message ID: handling data changes
\* nothing (no topic, no seen ID, no buffer), invokes nothing and throws
\* nothing, and handling [0, env] next dispatches the message unless q had
\* seen its ID before
Ignores(q, data, env) ==
    LET r == handleChannelMessage(q, data)
        later == handleChannelMessage(r.q, <<0, env>>)
    IN /\ r.q = q
       /\ r.ev = <<>>
       /\ ~r.threw
       /\ env.id \notin q.seenIds =>
             \E n \in Positions(later.ev, "dispatch") :
                later.ev[n].id = env.id

\* C26: an inbound value whose kind is not 0, or that is not a two-element
\* sequence, is ignored by an open instance, and a later kind-0 envelope
\* with the same message ID is still delivered.
C26_OtherShapesIgnored ==
    ~mq["A"].isClosed =>
       \A k \in Shapes :
          Ignores(mq["A"], InboundValue(k, ForeignEnvelope), ForeignEnvelope)

\* the part that holds: values whose kind is not 0 and values that are not
\* arrays are ignored
OtherKindsIgnored ==
    ~mq["A"].isClosed =>
       \A k \in OtherKinds :
          Ignores(mq["A"], InboundValue(k, ForeignEnvelope), ForeignEnvelope)

\* [0] makes the handler throw without changing anything, and
\* [0, envelope, "extra"] is handled as [0, envelope] is
KindZeroOfOtherLength ==
    LET q == mq["A"]
        short == handleChannelMessage(q, InboundValue(6, ForeignEnvelope))
    IN /\ ~q.isClosed => short.threw
       /\ short.q = q /\ short.ev = <<>>
       /\ handleChannelMessage(q, InboundValue(7, ForeignEnvelope))
             = handleChannelMessage(q, <<0, ForeignEnvelope>>)

\* the message IDs of the dispatches of an instance, in the order in which
\* they started
DispatchOrder(ev) ==
    LET d == SelectSeq(ev, LAMBDA e : e.ev = "dispatch")
    IN [k \in DOMAIN d |-> d[k].id]

\* the message IDs in the buffer of the topic named name, oldest first
BufferedIds(q, name) ==
    IF name \notin DOMAIN q.topicIndex THEN <<>>
    ELSE LET topic == getTopic(q, q.topicIndex[name])
         IN IF topic.buffer = Null THEN <<>>
            ELSE LET all == getAll(topic.buffer)
                 IN [k \in DOMAIN all |-> all[k].id]

\* the elements that sequences a and b have in common come in the same
\* order in both
SameOrder(a, b) ==
    \A j \in DOMAIN a, k \in DOMAIN a :
       \A m \in DOMAIN b, n \in DOMAIN b :
          (j < k /\ a[j] = b[n] /\ a[k] = b[m]) => n < m

\* C27: the messages that B publishes, publish calls made inside B's own
\* callbacks included, are dispatched by A in the order in which B made the
\* publish calls, and A's buffer of the topic holds them in the order in
\* which B's buffer does.
C27_SenderOrderPreserved ==
    /\ SameOrder(DispatchOrder(log["B"]), DispatchOrder(log["A"]))
    /\ SameOrder(BufferedIds(mq["B"], "x"), BufferedIds(mq["A"], "x"))

\* the order is preserved for the publish calls that B makes outside its
\* callbacks
TopLevelOrderPreserved ==
    LET Top(s) == SelectSeq(s, LAMBDA id : id <= MaxMsgs)
    IN /\ SameOrder(Top(DispatchOrder(log["B"])), Top(DispatchOrder(log["A"])))
       /\ SameOrder(Top(BufferedIds(mq["B"], "x")),
                    Top(BufferedIds(mq["A"], "x")))

\* A posted envelope of a publish made inside a callback leaves before the
\* envelope of the publish that invoked the callback
NestedPostedFirst ==
    LET posts == Posts(log["B"])
    IN \A j \in DOMAIN posts, k \in DOMAIN posts :
          (/\ posts[k][2].id <= MaxMsgs
           /\ \E sub \in 0..MaxWireCalls :
                 posts[j][2].id = NestedUUID(posts[k][2].id, sub)) => j < k

\* the positions in the history of A of step kind of publishAsync call pid
At(kind, pid) == {n \in Positions(log["A"], kind) : log["A"][n].pid = pid}

\* C23: deferred publishes run in the order of their publishAsync calls,
\* each to completion (all its callbacks and its post) before the next one
\* starts, whatever else is queued or called in between.
C23_DeferredPublishesFIFO ==
    \A a \in AsyncCalls, b \in AsyncCalls :
       LET pa == log["A"][a].pid
           pb == log["A"][b].pid
       IN a < b =>
             /\ \A n \in At("run", pb) : \E m \in At("done", pa) : m < n
             /\ \A n \in At("run", pa), m \in At("done", pa) :
                   \A k \in n..m :
                      log["A"][k].ev \in {"run", "done", "async"} =>
                         log["A"][k].pid = pa

\* two publishAsync calls were made before the first deferred publish ran,
\* and both deferred publishes have run, the second one invoking a callback
C23_Witness ==
    /\ \E a \in At("async", 2), r \in At("run", 1) : a < r
    /\ \E r \in At("run", 2), d \in At("done", 2) :
          \E c \in Positions(log["A"], "call") : r < c /\ c < d

\* what is true of the history of A for every publishAsync call: its
\* function runs after the call, at most once, and the returned promise is
\* fulfilled after the function has finished
DeferredInOrder ==
    \A pid \in 1..MaxAsyncCalls :
       /\ Cardinality(At("run", pid)) <= 1
       /\ Cardinality(At("settle", pid)) <= 1
       /\ \A r \in At("run", pid) : \E a \in At("async", pid) : a < r
       /\ \A st \in At("settle", pid) : \E d \in At("done", pid) : d < st

\* a step that is a publishAsync call adds the call to the history and
\* nothing else: no callback is invoked, nothing is posted, and the instance
\* is as it was
CallOnlyQueues ==
    Cardinality(Positions(log'["A"], "async")) > Cardinality(AsyncCalls)
    => /\ mq' = mq
       /\ chan' = chan
       /\ Len(log'["A"]) = Len(log["A"]) + 1
       /\ log'["A"][Len(log'["A"])].ev = "async"

\* publishAsync call pid has been made and its function has not run or the
\* returned promise is not fulfilled
Unsettled(pid) ==
    At("async", pid) # {} /\ (At("run", pid) = {} \/ At("settle", pid) = {})

\* C24: a publishAsync call invokes no callback and posts nothing before it
\* returns; the deferred publish runs exactly once, later, whatever the
\* program calls in between; the returned promise is fulfilled after the
\* deferred publish has finished, and it is fulfilled eventually when the
\* event loop keeps running microtasks (stated for an instance that is not
\* closed and callbacks that return).
C24_DefersThenCompletes ==
    /\ [][CallOnlyQueues]_vars
    /\ []DeferredInOrder
    /\ (\E pid \in 1..MaxAsyncCalls : Unsettled(pid))
          ~> (\A pid \in 1..MaxAsyncCalls : ~Unsettled(pid))

\* a publishAsync call was made, a subscription was added before its
\* function ran, the deferred publish invoked a callback and posted, and
\* the returned promise was fulfilled after that
C24_Witness ==
    \E a \in At("async", 1), r \in At("run", 1), d \in At("done", 1),
       st \in At("settle", 1) :
       /\ a < r /\ d < st
       /\ \E n \in Positions(log["A"], "subscribe") : a < n /\ n < r
       /\ \E c \in Positions(log["A"], "call") : r < c /\ c < d
       /\ \E c \in Positions(log["A"], "post") : r < c /\ c < d

\* the steps on which the fairness condition of SpecAsyncFair is stated are
\* the RunMicrotask steps
EventLoopStepIsRunMicrotask == [][EventLoopStep <=> RunMicrotask]_vars

\* an instance with one topic that has a buffer of the given capacity and
\* on which the payloads ps were published
TopicWithBuffer(capacity, ps) ==
    LET q0 == registerTopic(NewMessageQueue("A", TRUE), "x").q
        q1 == enableTopicBuffer(q0, 0, capacity).q
    IN publishBatchById(q1, 0, ps, 0, 0).q

\* a RingBuffer of capacity 0 holds nothing and evicts what is pushed
RetainsNothing(r) ==
    /\ len(r) = 0
    /\ pop(r).ret = Null /\ pop(r).rb = r
    /\ peek(r) = Null
    /\ getAll(r) = <<>>
    /\ clear(r).ret = 0
    /\ \A item \in Items \cup {Null} :
          push(r, item).ret = item /\ push(r, item).rb = r

\* C31: a RingBuffer of capacity 0 retains nothing: after any sequence of
\* operations every push returns the pushed item, len() is 0, pop() and
\* peek() return null and getAll() is empty; a topic with such a buffer has
\* hasBuffer true, getBufferSize 0 and getBufferedMessages [] after any
\* number of publishes.
C31_CapacityZeroRetainsNothing ==
    /\ getCapacity(rb) = 0 => RetainsNothing(rb)
    /\ \A ps \in Batches :
          LET q == TopicWithBuffer(0, ps)
          IN /\ hasBuffer(q, 0)
             /\ getBufferSize(q, 0) = 0
             /\ getBufferCapacity(q, 0) = 0
             /\ getBufferedMessages(q, 0) = <<>>
    /\ \A t \in Registered(mq["A"]) :
          LET b == mq["A"].topics[t + 1].buffer
          IN (b # Null /\ getCapacity(b) = 0) =>
                /\ RetainsNothing(b)
                /\ hasBuffer(mq["A"], t)
                /\ getBufferSize(mq["A"], t) = 0
                /\ getBufferedMessages(mq["A"], t) = <<>>

\* pushes, a pop and a clear were made on a RingBuffer of capacity 0
C31_Witness ==
    /\ getCapacity(rb) = 0
    /\ \E j \in DOMAIN rbTrace, k \in DOMAIN rbTrace, m \in DOMAIN rbTrace :
          /\ rbTrace[j].op = "push" /\ rbTrace[j].item # Null
          /\ rbTrace[k].op = "pop"
          /\ rbTrace[m].op = "clear"
          /\ j < k /\ j < m

\* the bounded FIFO sequence that drops its oldest element on overflow,
\* after the calls of trace were made on it (capacity c >= 1)
RECURSIVE Fifo(_, _)
Fifo(trace, c) ==
    IF trace = <<>> THEN <<>>
    ELSE LET before == Fifo(SubSeq(trace, 1, Len(trace) - 1), c)
             call == trace[Len(trace)]
         IN CASE call.op = "push" ->
                   IF Len(before) = c THEN Append(Tail(before), call.item)
                   ELSE Append(before, call.item)
              [] call.op = "pop" ->
                   IF before = <<>> THEN <<>> ELSE Tail(before)
              [] OTHER -> <<>>

\* the RingBuffer r answers every call as the sequence abs does
AnswersAs(r, abs) ==
    /\ getAll(r) = abs
    /\ len(r) = Len(abs)
    /\ isEmpty(r) = (abs = <<>>)
    /\ isFull(r) = (Len(abs) = getCapacity(r))
    /\ peek(r) = IF abs = <<>> THEN Null ELSE Head(abs)
    /\ pop(r).ret = IF abs = <<>> THEN Null ELSE Head(abs)
    /\ clear(r).ret = Len(abs)
    /\ \A item \in Items \cup {Null} :
          push(r, item).ret
             = IF Len(abs) = getCapacity(r) THEN Head(abs) ELSE Null

\* C32: a RingBuffer of capacity C >= 1 refines the bounded FIFO sequence
\* that drops its oldest element on overflow: after every interleaving of
\* push, pop and clear, each call returns what the sequence returns and
\* getAll() is the sequence, oldest first.
C32_RefinesBoundedFifo ==
    getCapacity(rb) >= 1 => AnswersAs(rb, Fifo(rbTrace, getCapacity(rb)))

\* the refinement holds when no null is pushed
RefinesBoundedFifoOfObjects ==
    (getCapacity(rb) >= 1 /\ \A n \in DOMAIN rbTrace :
        rbTrace[n].op = "push" => rbTrace[n].item # Null)
    => AnswersAs(rb, Fifo(rbTrace, getCapacity(rb)))

\* C33: inbound messages feed the replay buffer of the receiver as local
\* ones do.  On an open instance, for a topic whose buffer was enabled and
\* not touched since, getBufferedMessages is the last payloads dispatched
\* to the topic, local and inbound, in the order of their dispatch; and
\* accepting a waiting envelope for the name of a topic with a buffer
\* pushes its payload, evicting the oldest entry when the buffer is full.
C33_InboundFeedsBuffer ==
    \A i \in Instances :
       LET q == mq[i]
           ev == log[i]
       IN ~q.isClosed =>
            /\ \A t \in Registered(q) :
                  LET n == LastEnable(ev, t)
                      untouched == \A m \in Positions(ev, "buffer") :
                                      ev[m].topic_id = t => m <= n
                  IN (n > 0 /\ untouched) =>
                        getBufferedMessages(q, t)
                           = LastN(DispatchedAfter(ev, t, n), ev[n].capacity)
            /\ \A data \in Waiting(i) :
                  LET w == data[2]
                      r == handleChannelMessage(q, data)
                  IN (/\ w.id \notin q.seenIds
                      /\ w.origin_id # q.clientId
                      /\ w.topic_name \in DOMAIN q.topicIndex
                      /\ hasBuffer(q, q.topicIndex[w.topic_name])) =>
                        LET t == q.topicIndex[w.topic_name]
                        IN getBufferedMessages(r.q, t)
                              = LastN(Append(getBufferedMessages(q, t),
                                             w.payload),
                                      getBufferCapacity(q, t))

\* the buffer of a topic holds a payload that the instance published
\* followed by one that it received
C33_Witness ==
    \E i \in Instances : \E t \in Registered(mq[i]) :
       \E j \in Positions(log[i], "post"), k \in Positions(log[i], "receive") :
          /\ ~mq[i].isClosed
          /\ j < k /\ k < Len(log[i])
          /\ log[i][k + 1].ev = "dispatch"
          /\ log[i][k + 1].topic_id = t
          /\ log[i][j].data[2].topic_id = t
          /\ getBufferedMessages(mq[i], t)
                = <<log[i][j].data[2].payload, log[i][k].data[2].payload>>

(***************************************************************************)
(* C34: once close() has returned, the instance never again invokes a      *)
(* subscriber callback: in the trace of the instance no callback is        *)
(* invoked after a close, whether the close was called by the program or   *)
(* by a callback during a dispatch that had subscribers left to visit,     *)
(* and whether what follows is a publish, a deferred publish queued before *)
(* the close, a channel event, or a publish on a topic registered and      *)
(* subscribed after the close.                                             *)
(***************************************************************************)
\* the positions of log[i] that follow a close
AfterClose(i) ==
    {m \in DOMAIN log[i] :
       \E n \in Positions(log[i], "close") : n < m}

C34_NoCallbackAfterClose ==
    /\ \A i \in Instances : \A m \in AfterClose(i) : log[i][m].ev # "call"
    /\ \A i \in Instances : mq[i].isClosed =>
          \A t \in Registered(mq[i]) :
             /\ publish(mq[i], t, "p", generateUUID(nextUUID), now).ev = <<>>
             /\ handleChannelMessage(mq[i], <<0, ForeignEnvelope>>).ev = <<>>

\* a callback closed the instance during a dispatch while a later
\* subscriber was still to be visited; after that a deferred publish that
\* was queued before the close ran, and a channel envelope for the topic's
\* name that was waiting was handled
C34_Witness ==
    LET ev == log["A"]
    IN \E c \in Positions(ev, "close") :
          /\ c > 1 /\ ev[c - 1].ev = "call" /\ ev[c - 1].sub = 0
          /\ \E s \in Positions(ev, "subscribe") :
                s < c /\ ev[s].sub = 1 /\ ev[s].topic_id = ev[c - 1].topic_id
          /\ \E a \in Positions(ev, "async"), r \in Positions(ev, "run") :
                a < c /\ c < r /\ ev[r].pid = ev[a].pid
          /\ \E k \in Positions(ev, "receive") :
                c < k /\ ev[k].data[1] = 0 /\ ev[k].data[2].topic_name = "x"

\* the instance is closed and holds a subscriber on a topic that was
\* registered after the close
ClosedWithSubscribers ==
    /\ mq["A"].isClosed
    /\ \E t \in Registered(mq["A"]) : subscriberCount(mq["A"], t) > 0

(***************************************************************************)
(* C35: subscribe performs no replay.  A subscribe call invokes no         *)
(* callback and leaves every buffer as it is, and a subscriber is invoked  *)
(* only for messages whose dispatch started after the subscribe call that  *)
(* issued its ID returned.                                                 *)
(***************************************************************************)
\* what a subscribe call does itself: no callback is invoked and the
\* buffers keep their contents
SubscribeInvokesNothing ==
    \A i \in Instances :
       LET q == mq[i]
       IN \A t \in TopicIds(q), cb \in Callbacks \cup ReentrantCallbacks :
             LET r == subscribe(q, t, cb)
             IN /\ Positions(r.ev, "call") = {}
                /\ \A u \in Registered(q) :
                      /\ r.q.topics[u + 1].buffer = q.topics[u + 1].buffer
                      /\ getBufferedMessages(r.q, u) = getBufferedMessages(q, u)

\* the subscribe event that issued the ID of the subscriber invoked at
\* position m of ev (0 when there is none)
SubscribedAt(ev, m) ==
    Last({0} \cup {n \in Positions(ev, "subscribe") :
                     /\ n < m
                     /\ ev[n].topic_id = ev[m].topic_id
                     /\ ev[n].sub = ev[m].sub})

\* every invocation is for a message dispatched after the subscribe
InvokedOnlyForLaterMessages ==
    \A i \in Instances :
       LET ev == log[i]
       IN \A m \in Positions(ev, "call") :
             /\ SubscribedAt(ev, m) > 0
             /\ \E d \in Positions(ev, "dispatch") :
                   /\ ev[d].id = ev[m].id
                   /\ SubscribedAt(ev, m) < d /\ d < m

C35_SubscribePerformsNoReplay ==
    SubscribeInvokesNothing /\ InvokedOnlyForLaterMessages

\* a subscriber was invoked for a message that the topic's buffer held when
\* the subscriber was added
InvokedForBufferedMessage ==
    LET ev == log["A"]
    IN \E m \in Positions(ev, "call") :
          \E d \in Positions(ev, "dispatch") :
             /\ ev[d].id = ev[m].id
             /\ d < SubscribedAt(ev, m)
             /\ hasBuffer(mq["A"], ev[m].topic_id)
             /\ ev[m].payload \in
                   {getBufferedMessages(mq["A"], ev[m].topic_id)[k] :
                      k \in DOMAIN getBufferedMessages(mq["A"], ev[m].topic_id)}

(***************************************************************************)
(* C36: enableTopicBuffer(t, C) on a registered topic installs a fresh     *)
(* empty buffer of capacity C.  Whatever buffer the topic had, after the   *)
(* call the topic has a buffer, its size is 0, its capacity is C and it    *)
(* holds no message; the same is true when disableTopicBuffer is called    *)
(* first; and what the buffer holds later are only messages dispatched     *)
(* after the call.                                                         *)
(***************************************************************************)
\* topic t of instance q has an empty buffer of capacity c
FreshBuffer(q, t, c) ==
    /\ hasBuffer(q, t)
    /\ q.topics[t + 1].buffer = RBNew(c)
    /\ getBufferSize(q, t) = 0
    /\ getBufferCapacity(q, t) = c
    /\ getBufferedMessages(q, t) = <<>>

C36_EnableInstallsFreshBuffer ==
    \A i \in Instances :
       LET q == mq[i]
           uuid == generateUUID(nextUUID)
       IN \A t \in Registered(q), c \in Capacities :
             LET e == enableTopicBuffer(q, t, c)
                 d == enableTopicBuffer(disableTopicBuffer(q, t).q, t, c)
             IN /\ FreshBuffer(e.q, t, c)
                /\ FreshBuffer(d.q, t, c)
                /\ d.q = e.q
                /\ \A u \in Registered(q) \ {t} :
                      e.q.topics[u + 1] = q.topics[u + 1]
                /\ \A p \in Payloads :
                      (~q.isClosed /\ q.topics[t + 1].subscribers = <<>>) =>
                         getBufferedMessages(publish(e.q, t, p, uuid, now).q, t)
                            = LastN(<<p>>, c)

\* the buffer of a topic held a message when enableTopicBuffer was called
\* for the topic, with another capacity, as the last call so far
C36_Witness ==
    LET ev == log["A"]
        Enables == {n \in Positions(ev, "buffer") : ev[n].op = "enable"}
    IN \E t \in Registered(mq["A"]) :
          \E n \in Enables, d \in Positions(ev, "dispatch") :
             /\ n < d /\ d < Len(ev)
             /\ ev[n].topic_id = t /\ ev[n].capacity >= 1
             /\ ev[d].topic_id = t
             /\ \A k \in (n + 1)..(Len(ev) - 1) :
                   ev[k].ev \notin {"buffer", "close"}
             /\ Len(ev) \in Enables /\ ev[Len(ev)].topic_id = t
             /\ ev[Len(ev)].capacity # ev[n].capacity
             /\ FreshBuffer(mq["A"], t, ev[Len(ev)].capacity)

(***************************************************************************)
(* C37: a destroyed topic stays usable under its old ID.  destroyTopic     *)
(* leaves the instance in the state that unsubscribeAll followed by        *)
(* disableTopicBuffer leaves it in; after it, subscribe on the ID succeeds *)
(* and returns an ID larger than every ID issued on the topic before,      *)
(* enableTopicBuffer installs a buffer, and a publish on the ID and an     *)
(* inbound message for the topic's name are delivered to the new           *)
(* subscriber (deliveries stated for instances that have not been closed). *)
(***************************************************************************)
\* the subscription IDs issued on topic t of instance i since the instance
\* was last closed
IssuedOn(i, t) ==
    LET ev == log[i]
    IN {ev[n].sub : n \in {k \in Positions(ev, "subscribe") :
                              /\ ev[k].topic_id = t
                              /\ \A c \in Positions(ev, "close") : c < k}}

\* an envelope of another context for topic name
EnvelopeFor(name) == [ForeignEnvelope EXCEPT !.topic_name = name]

C37_DestroyedTopicStaysUsable ==
    \A i \in Instances :
       LET q == mq[i]
           uuid == generateUUID(nextUUID)
       IN \A t \in TopicIds(q) :
             LET d == destroyTopic(q, t)
                 u == disableTopicBuffer(unsubscribeAll(q, t).q, t)
             IN /\ d.q = u.q
                /\ d.ret = (t \in Registered(q))
                /\ t \in Registered(q) =>
                      LET s == subscribe(d.q, t, "ok")
                          e == enableTopicBuffer(s.q, t, MaxCap)
                          pub == publish(e.q, t, "p", uuid, now)
                          env == EnvelopeFor(q.topics[t + 1].name)
                          inb == handleChannelMessage(e.q, <<0, env>>)
                      IN /\ ~s.threw
                         /\ s.ret = q.topics[t + 1].nextSubId
                         /\ \A x \in IssuedOn(i, t) : x < s.ret
                         /\ SubIds(s.q.topics[t + 1].subscribers) = {s.ret}
                         /\ FreshBuffer(e.q, t, MaxCap)
                         /\ ~q.isClosed =>
                               /\ Invoked(pub.ev, uuid) = <<s.ret>>
                               /\ getBufferedMessages(pub.q, t) = <<"p">>
                               /\ env.id \notin q.seenIds =>
                                     /\ Invoked(inb.ev, env.id) = <<s.ret>>
                                     /\ getBufferedMessages(inb.q, t) = <<"p">>

\* a topic was destroyed, a subscriber was added under the old ID
\* afterwards, and an inbound message for the topic's name was delivered
\* to it
C37_Witness ==
    \E i \in Instances :
       LET ev == log[i]
       IN \E b \in Positions(ev, "buffer"), s \in Positions(ev, "subscribe"),
             r \in Positions(ev, "receive"), c \in Positions(ev, "call") :
             /\ ev[b].op = "destroy"
             /\ b < s /\ s < r /\ r < c
             /\ ev[s].topic_id = ev[b].topic_id
             /\ ev[c].topic_id = ev[b].topic_id /\ ev[c].sub = ev[s].sub
             /\ ev[c].id = ev[r].data[2].id

\* a subscription ID issued after a destroy of the topic on which an
\* earlier ID had been issued
SubscribedAgain ==
    \E i \in Instances :
       LET ev == log[i]
       IN \E a \in Positions(ev, "subscribe"), b \in Positions(ev, "buffer"),
             s \in Positions(ev, "subscribe") :
             /\ a < b /\ b < s /\ ev[b].op = "destroy"
             /\ ev[a].topic_id = ev[b].topic_id
             /\ ev[s].topic_id = ev[b].topic_id
             /\ ev[s].sub > ev[a].sub
             /\ ~mq[i].isClosed

====
